---- MODULE Spec2Model ----
(***************************************************************************)
(* skulls: a command-line manager of agent skills.                         *)
(*                                                                         *)
(* The module models the parts of the program below, each with its own    *)
(* specification over the same variables:                                  *)
(*   SpecLock   the lock store (skill-lock.ts, and the reader of cli.ts)   *)
(*   SpecFetch  fetchSkillFolderHash (skill-lock.ts)                       *)
(*   SpecCheck  runCheck and runUpdate (cli.ts)                            *)
(*   SpecAdd    runAdd and its handlers (add.ts, installer.ts)             *)
(*   SpecInstall  one call of an installer function, with the files it     *)
(*              writes (installer.ts)                                      *)
(*   SpecRemove removeCommand (remove.ts)                                  *)
(*   SpecOptions  parseAddOptions, and runAdd from the options to the      *)
(*              discovery (add.ts)                                         *)
(*   SpecRace   two calls of the lock store at once (skill-lock.ts)        *)
(*   SpecSeq    the lock-store calls of one add or remove run, in order    *)
(*   SpecFind   the interactive search prompt (find.ts)                    *)
(*                                                                         *)
(* Strings the program takes apart, builds or tests for emptiness (names,  *)
(* sources, paths, hashes) are sequences; strings it only compares are TLA+*)
(* strings.  Timestamps are natural numbers read from `clock'.             *)
(***************************************************************************)
EXTENDS Integers, Sequences, FiniteSets, TLC

VARIABLES
    lockFile,   \* content of ~/.agents/.skill-lock.json
    clock,      \* the wall clock, new Date()
    lastOp,     \* the lock-store call that just ran, with its outcome
    readRes,    \* what the last readSkillLock returned
    firstAdd,   \* history: per name, time of the first completed add since it was absent
    lastAdd,    \* history: per name, time of the latest completed add
    fPc,        \* fetchSkillFolderHash: "idle", "loop" or "done"
    fSkillPath, \* the skillPath it was called with
    fFolder,    \* its folderPath, after the manifest name and a trailing slash are cut
    fRemote,    \* what the GitHub trees API answers, per branch
    fIdx,       \* index of the branch the loop is at
    fRequests,  \* the branches requested so far, in order
    fResult,    \* what the call returned
    cCmd,       \* the command running: "none", "check" or "update"
    cPc,        \* where it is: "idle", "scan", "lookup", "reinstall", "done"
    cLock,      \* the skills map it read when it started
    cNames,     \* lock entries still to be looked at, in key order
    cQueue,     \* runCheck: entries still to be looked up, grouped by source
    cSkipped,   \* runCheck: skippedCount
    cChecked,   \* the entries found checkable, in key order (checkedCount is its length)
    cLooked,    \* history: the remote lookups made, <<name, answer>>, in order
    cUpdates,   \* the updates list
    cErrors,    \* runCheck: the errors list
    cTodo,      \* runUpdate: updates still to reinstall
    cSpawned,   \* history: the skills a reinstall was spawned for, in order
    cSuccess,   \* runUpdate: successCount
    cFail,      \* runUpdate: failCount
    cMsg,       \* the message the command ended with
    aPc,        \* the add run: "idle", "discover", "fetch", "prompt", "confirm", "install",
                \*   "installed", "lock", "report" or "done"
    aFlow,      \* "runAdd", "well-known", "remote" or "legacy" ("none" before parsing)
    aParsed,    \* the parsed source, with what the providers and getOwnerRepo say of it
    aOptions,   \* the options, after --all and the @skill suffix are folded in
    aTempDir,   \* the clone directory: "null", "present" or "removed"
    aSkills,    \* the skills discovered, in order
    aSelected,  \* selectedSkills
    aOverwrites,\* per selected skill, whether the summary says it overwrites a skill
    aAnswer,    \* what the multiselect prompt answered
    aCalls,     \* history: the skills the installer was called with, in order
    aResults,   \* results
    aSuccessful,\* successful
    aFailed,    \* failed
    aLockAt,    \* the lock loop: index of the selected skill it is at
    aLockLog,   \* history: the addSkillToLock calls made, <<name, wrote>>, in order
    aLock0,     \* history: the lock entries as the run found them
    aDirs,      \* the target directory: what each skill directory holds
    aReported,  \* the paths listed under "Installed n skill(s)"
    aExit,      \* the exit status: NotExited while the run goes on
    iPc,        \* one installer call: "idle" or "done"
    iFn,        \* the installer function called
    iName,      \* the skill's name (installName for the remote and well-known skills)
    iFiles,     \* the files of the skill: entries of its folder, or keys of skill.files
    iDir,       \* the install directory: whether it exists, and the files in it
    iSkipped,   \* the files the call passed over
    iResult,    \* the InstallResult returned
    rPc,        \* removeCommand: "idle", "prompt", "removing" or "done"
    rNames,     \* the skill names it was called with
    rAll,       \* options.all
    rDirs,      \* the names of the directories of the target directory
    rDirs0,     \* history: those names when the command began
    rLock0,     \* history: the skills of the lock store when the command began
    rAdded,     \* the names of the skills add runs installed before the command
    rManifests, \* the directories of rDirs0 that hold a SKILL.md with name and description
    rInstalled, \* installedSkills: the directory names the scan found, sorted
    rSelected,  \* selectedSkills
    rResults,   \* results, one per skill the loop has been through
    rMsg,       \* what the command reports last
    rExit,      \* the exit status: NotExited while the command goes on
    pPc,        \* the options of an add run: "idle", "parsed" or "discovered"
    pArgs,      \* the arguments after the command name
    pResult,    \* what parseAddOptions returned for them
    pSuffix,    \* parsed.skillFilter, the @skill suffix of the source
    pFound,     \* the skills with a valid manifest in the tree searched
    pEnv,       \* the value of INSTALL_INTERNAL_SKILLS
    pOptions,   \* the options as runAdd has them when it calls discoverSkills
    pSkills,    \* what discoverSkills returned
    qPc,        \* two lock-store calls, per process: "idle", "read" (the file is read,
                \*   not yet written) or "done"
    qCall,      \* per process, the call it makes: addSkillToLock or removeSkillFromLock
    qRead,      \* per process, the content of the file when it read it
    qFile0,     \* history: the skills of the lock file before the two calls
    qEvents,    \* history: the reads, opens and writes of the file, <<process, kind>>, in order
    sPc,        \* the search prompt: "idle", "open" (waiting for keys) or "closed"
    sQuery,     \* query, the text typed so far
    sResults,   \* results, the skills of the last response taken
    sSelectedIndex, \* selectedIndex, counted from 0
    sLoading,   \* loading
    sDebounceTimer, \* debounceTimer: the handle of a timer, or NoTimer for null
    sTimers,    \* the timers set and neither fired nor cleared, with the query of each
    sRequests,  \* the searches sent and not yet answered, with the query of each
    sNextTimer, \* the handle setTimeout returns next
    sResolved   \* what the prompt's promise resolved to

lockVars == <<lockFile, clock, lastOp, readRes, firstAdd, lastAdd>>
fetchVars == <<fPc, fSkillPath, fFolder, fRemote, fIdx, fRequests, fResult>>
checkVars == <<cCmd, cPc, cLock, cNames, cQueue, cSkipped, cChecked, cLooked, cUpdates,
               cErrors, cTodo, cSpawned, cSuccess, cFail, cMsg>>

addVars == <<aPc, aFlow, aParsed, aOptions, aTempDir, aSkills, aSelected, aOverwrites, aAnswer, aCalls,
             aResults, aSuccessful, aFailed, aLockAt, aLockLog, aLock0, aDirs, aReported,
             aExit>>

installVars == <<iPc, iFn, iName, iFiles, iDir, iSkipped, iResult>>

removeVars == <<rPc, rNames, rAll, rDirs, rDirs0, rLock0, rAdded, rManifests, rInstalled, rSelected, rResults,
               rMsg, rExit>>

optionVars == <<pPc, pArgs, pResult, pSuffix, pFound, pEnv, pOptions, pSkills>>

raceVars == <<qPc, qCall, qRead, qFile0, qEvents>>

searchVars == <<sPc, sQuery, sResults, sSelectedIndex, sLoading, sDebounceTimer, sTimers,
                sRequests, sNextTimer, sResolved>>

vars == <<lockVars, fetchVars, checkVars, addVars, installVars, removeVars, optionVars, raceVars,
          searchVars>>

\* What the actions of one part leave alone.
otherThanLock == <<fetchVars, checkVars, addVars, installVars, removeVars, optionVars, raceVars, searchVars>>
otherThanFetch == <<lockVars, checkVars, addVars, installVars, removeVars, optionVars, raceVars, searchVars>>
otherThanCheck == <<fetchVars, addVars, installVars, removeVars, optionVars, raceVars, searchVars>>
otherThanAdd == <<fetchVars, checkVars, installVars, removeVars, optionVars, raceVars, searchVars>>
otherThanInstall == <<lockVars, fetchVars, checkVars, addVars, removeVars, optionVars, raceVars, searchVars>>
otherThanRemove == <<fetchVars, checkVars, addVars, installVars, optionVars, raceVars, searchVars>>
otherThanOptions == <<lockVars, fetchVars, checkVars, addVars, installVars, removeVars, raceVars, searchVars>>
otherThanRace == <<fetchVars, checkVars, addVars, installVars, removeVars, optionVars, searchVars>>
otherThanSearch == <<lockVars, fetchVars, checkVars, addVars, installVars, removeVars, optionVars,
                    raceVars>>
lockHistory == <<clock, lastOp, readRes, firstAdd, lastAdd>>

(***************************************************************************)
(* Bounds of the model.                                                    *)
(***************************************************************************)
MaxClock == 2

(***************************************************************************)
(* Names.                                                                  *)
(***************************************************************************)
NameA == <<"a">>
NameUpperA == <<"A">>
NameB == <<"b">>
NameC == <<"c">>

LockNames == {NameA, NameB}

Undefined == <<"undefined">>      \* an absent optional string field
NoTime == -1

(***************************************************************************)
(* skill-lock.ts: the lock file.                                           *)
(*                                                                         *)
(* A file is missing, not JSON ("garbage"), or a JSON document.  Of a      *)
(* document the model keeps: whether `version' is a number and its value,  *)
(* whether `skills' is present (truthy), and the skills map.               *)
(***************************************************************************)
CURRENT_VERSION == 3
CURRENT_LOCK_VERSION == 3

NoSkills == [n \in {} |-> 0]

MissingFile ==
    [kind |-> "missing", vnum |-> FALSE, version |-> 0, hasSkills |-> FALSE, skills |-> NoSkills]

GarbageFile ==
    [kind |-> "garbage", vnum |-> FALSE, version |-> 0, hasSkills |-> FALSE, skills |-> NoSkills]

JsonFile(vnum, version, hasSkills, skills) ==
    [kind |-> "json", vnum |-> vnum, version |-> version, hasSkills |-> hasSkills, skills |-> skills]

createEmptyLockFile == [version |-> CURRENT_VERSION, skills |-> NoSkills]

\* A reader that forgets the schema guard (a plausible slip; used to test C6's formula).
readSkillLock_NoVersionGuard(file) ==
    IF file.kind # "json" THEN createEmptyLockFile
    ELSE IF ~file.vnum \/ ~file.hasSkills THEN createEmptyLockFile
    ELSE [version |-> file.version, skills |-> file.skills]

\* A reader that takes the entries of a file of any schema version.
readSkillLock_AnyVersion(file) ==
    IF file.kind # "json" THEN createEmptyLockFile
    ELSE IF ~file.hasSkills THEN createEmptyLockFile
    ELSE [version |-> CURRENT_VERSION, skills |-> file.skills]

\* readSkillLock of skill-lock.ts: readFile or JSON.parse throwing lands in the catch.
readSkillLock(file) ==
    IF file.kind # "json" THEN createEmptyLockFile
    ELSE IF ~file.vnum \/ ~file.hasSkills THEN createEmptyLockFile
    ELSE IF file.version < CURRENT_VERSION THEN createEmptyLockFile
    ELSE [version |-> file.version, skills |-> file.skills]

\* readSkillLock of cli.ts, the synchronous copy used by check and update.
readSkillLockSync(file) ==
    IF file.kind # "json" THEN [version |-> CURRENT_LOCK_VERSION, skills |-> NoSkills]
    ELSE IF ~file.vnum \/ ~file.hasSkills THEN [version |-> CURRENT_LOCK_VERSION, skills |-> NoSkills]
    ELSE IF file.version < CURRENT_LOCK_VERSION THEN [version |-> CURRENT_LOCK_VERSION, skills |-> NoSkills]
    ELSE [version |-> file.version, skills |-> file.skills]

\* writeSkillLock: the file becomes JSON.stringify(lock).
writeSkillLock(lock) == JsonFile(TRUE, lock.version, TRUE, lock.skills)

\* An upsert that stamps installedAt anew on every call (used to test C5's formula).
StampedEntry_ResetsInstalledAt(lock, skillName, entry, now) ==
    [source |-> entry.source,
     sourceType |-> entry.sourceType,
     sourceUrl |-> entry.sourceUrl,
     skillPath |-> entry.skillPath,
     skillFolderHash |-> entry.skillFolderHash,
     installedAt |-> now,
     updatedAt |-> now]

\* The entry addSkillToLock stores: the given fields, installedAt kept if the name exists.
StampedEntry(lock, skillName, entry, now) ==
    [source |-> entry.source,
     sourceType |-> entry.sourceType,
     sourceUrl |-> entry.sourceUrl,
     skillPath |-> entry.skillPath,
     skillFolderHash |-> entry.skillFolderHash,
     installedAt |-> IF skillName \in DOMAIN lock.skills
                     THEN lock.skills[skillName].installedAt
                     ELSE now,
     updatedAt |-> now]

\* An upsert that hands over the new entry alone.
addSkillToLock_OnlyNew(file, skillName, entry, now) ==
    LET lock == readSkillLock(file)
    IN  [version |-> lock.version,
         skills |-> [n \in {skillName} |-> StampedEntry(lock, skillName, entry, now)]]

\* addSkillToLock: the lock it hands to writeSkillLock.
addSkillToLock(file, skillName, entry, now) ==
    LET lock == readSkillLock(file)
    IN  [version |-> lock.version,
         skills |-> [n \in DOMAIN lock.skills \cup {skillName} |->
                        IF n = skillName THEN StampedEntry(lock, skillName, entry, now)
                        ELSE lock.skills[n]]]

\* A removal that rewrites the file even when the name is absent (used to test C7's formula).
removeSkillFromLock_AlwaysWrites(file, skillName) ==
    LET lock == readSkillLock(file)
    IN  [found |-> TRUE,
         lock |-> [version |-> lock.version,
                   skills |-> [n \in DOMAIN lock.skills \ {skillName} |-> lock.skills[n]]]]

\* removeSkillFromLock: whether the name is in the lock read, and the lock written if so.
removeSkillFromLock(file, skillName) ==
    LET lock == readSkillLock(file)
    IN  [found |-> skillName \in DOMAIN lock.skills,
         lock |-> [version |-> lock.version,
                   skills |-> [n \in DOMAIN lock.skills \ {skillName} |-> lock.skills[n]]]]

(***************************************************************************)
(* Inputs of the lock store specification.                                 *)
(***************************************************************************)
GivenGithub ==
    [source |-> <<"o/r">>, sourceType |-> "github", sourceUrl |-> "https://github.com/o/r.git",
     skillPath |-> <<"d", "/", "SKILL.md">>, skillFolderHash |-> <<"h1">>]

GivenWellKnown ==
    [source |-> <<"wellknown/site">>, sourceType |-> "well-known", sourceUrl |-> "https://site/x",
     skillPath |-> Undefined, skillFolderHash |-> <<>>]

GivenEntries == {GivenGithub, GivenWellKnown}

Stored(given, at) ==
    [source |-> given.source, sourceType |-> given.sourceType, sourceUrl |-> given.sourceUrl,
     skillPath |-> given.skillPath, skillFolderHash |-> given.skillFolderHash,
     installedAt |-> at, updatedAt |-> at]

OldSkills == [n \in {NameA} |-> Stored(GivenGithub, 0)]

\* Files the program may find when it starts.
InitialLockFiles ==
    { MissingFile, GarbageFile,
      JsonFile(FALSE, 0, TRUE, OldSkills),        \* no numeric version
      JsonFile(TRUE, 3, FALSE, NoSkills),         \* no skills map
      JsonFile(TRUE, 1, TRUE, OldSkills),         \* schema 1
      JsonFile(TRUE, 2, TRUE, OldSkills),         \* schema 2
      JsonFile(TRUE, 3, TRUE, NoSkills),
      JsonFile(TRUE, 3, TRUE, OldSkills),
      JsonFile(TRUE, 4, TRUE, OldSkills) }        \* written by a later schema

NoOp ==
    [op |-> "none", name |-> NameA, given |-> GivenGithub, threw |-> FALSE,
     ret |-> FALSE, wrote |-> FALSE, now |-> 0]

LockStoreStart ==
    /\ lockFile \in InitialLockFiles
    /\ clock = 1
    /\ lastOp = NoOp
    /\ readRes = [async |-> NoSkills, sync |-> NoSkills]
    /\ firstAdd = [n \in LockNames |->
                    IF n \in DOMAIN readSkillLock(lockFile).skills
                    THEN readSkillLock(lockFile).skills[n].installedAt ELSE NoTime]
    /\ lastAdd = [n \in LockNames |->
                    IF n \in DOMAIN readSkillLock(lockFile).skills
                    THEN readSkillLock(lockFile).skills[n].updatedAt ELSE NoTime]


(***************************************************************************)
(* skill-lock.ts: fetchSkillFolderHash.                                    *)
(*                                                                         *)
(* A path is a sequence of tokens: "/", "\\", the manifest name "SKILL.md" *)
(* (eight characters, kept whole) and one-character names.  The answer of  *)
(* the trees API for a branch is a failed request ("neterr": fetch throws; *)
(* "notok": a status that is not ok; "badjson": response.json() throws) or *)
(* a listing ("ok") with the root tree's sha and the tree entries.         *)
(***************************************************************************)
Slash == "/"
Backslash == "\\"
Manifest == "SKILL.md"

EndsWith(p, suffix) ==
    /\ Len(p) >= Len(suffix)
    /\ SubSeq(p, Len(p) - Len(suffix) + 1, Len(p)) = suffix

DropLast(p, k) == SubSeq(p, 1, Len(p) - k)

\* skillPath.replace(/\\/g, '/')
ReplaceBackslashes(p) == [i \in 1..Len(p) |-> IF p[i] = Backslash THEN Slash ELSE p[i]]

\* A normalisation that keeps the manifest name when no slash precedes it
\* (used to test the formulas that depend on the folder path).
FolderPathOf_KeepsBareManifest(skillPath) ==
    LET p0 == ReplaceBackslashes(skillPath)
        p1 == IF EndsWith(p0, <<Slash, Manifest>>) THEN DropLast(p0, 2) ELSE p0
    IN  IF EndsWith(p1, <<Slash>>) THEN DropLast(p1, 1) ELSE p1

\* Lines 127-137: the folder path looked up in the listing.
FolderPathOf(skillPath) ==
    LET p0 == ReplaceBackslashes(skillPath)
        p1 == IF EndsWith(p0, <<Slash, Manifest>>) THEN DropLast(p0, 2)
              ELSE IF EndsWith(p0, <<Manifest>>) THEN DropLast(p0, 1)
              ELSE p0
    IN  IF EndsWith(p1, <<Slash>>) THEN DropLast(p1, 1) ELSE p1

branches == <<"main", "master">>

NoSha == <<>>

\* data.tree.find(entry => entry.type === 'tree' && entry.path === folderPath)
FindFolder(tree, folderPath) ==
    {e \in tree : e.type = "tree" /\ e.path = folderPath}

\* A loop body whose catch lets a failed request escape (used to test C10's formula).
BranchOutcome_Rethrows(resp, folderPath) ==
    IF resp.kind = "neterr" THEN [kind |-> "throw", sha |-> NoSha]
    ELSE IF resp.kind = "notok" THEN [kind |-> "continue", sha |-> NoSha]
    ELSE IF resp.kind = "badjson" THEN [kind |-> "throw", sha |-> NoSha]
    ELSE IF folderPath = <<>> THEN [kind |-> "return", sha |-> resp.sha]
    ELSE IF FindFolder(resp.tree, folderPath) # {}
         THEN [kind |-> "return", sha |-> (CHOOSE e \in FindFolder(resp.tree, folderPath) : TRUE).sha]
    ELSE [kind |-> "continue", sha |-> NoSha]

\* Lines 142-174, one iteration of the loop: return a sha or go on to the next branch.
BranchOutcome(resp, folderPath) ==
    IF resp.kind = "neterr" THEN [kind |-> "continue", sha |-> NoSha]       \* catch
    ELSE IF resp.kind = "notok" THEN [kind |-> "continue", sha |-> NoSha]   \* !response.ok
    ELSE IF resp.kind = "badjson" THEN [kind |-> "continue", sha |-> NoSha] \* catch
    ELSE IF folderPath = <<>> THEN [kind |-> "return", sha |-> resp.sha]
    ELSE IF FindFolder(resp.tree, folderPath) # {}
         THEN [kind |-> "return", sha |-> (CHOOSE e \in FindFolder(resp.tree, folderPath) : TRUE).sha]
    ELSE [kind |-> "continue", sha |-> NoSha]

\* Inputs: skill paths, and per branch the answers of the API.
SkillPaths ==
    { <<>>, <<Manifest>>, <<Slash, Manifest>>,
      <<"d", Slash, Manifest>>, <<"d", Backslash, Manifest>>,
      <<"d">>, <<"d", Slash>>, <<"d", Manifest>>,
      <<"d", Slash, "e", Slash, Manifest>> }

TreeEntry(branch, path, type) ==
    [path |-> path, type |-> type, sha |-> <<branch, path, type>>]

Trees(branch) ==
    { {},
      {TreeEntry(branch, <<"d">>, "tree")},
      {TreeEntry(branch, <<"d">>, "blob")},
      {TreeEntry(branch, <<"d">>, "tree"), TreeEntry(branch, <<"d", Slash, "e">>, "tree"),
       TreeEntry(branch, <<"d", Slash, "e", Slash, Manifest>>, "blob")} }

Failed(kind) == [kind |-> kind, sha |-> NoSha, tree |-> {}]

Responses(branch) ==
    { Failed("neterr"), Failed("notok"), Failed("badjson") }
    \cup { [kind |-> "ok", sha |-> <<branch, <<>>, "tree">>, tree |-> t] : t \in Trees(branch) }

Remotes == { [b \in {"main", "master"} |-> IF b = "main" THEN r1 ELSE r2] :
                r1 \in Responses("main"), r2 \in Responses("master") }

NoResult == [kind |-> "none", sha |-> NoSha]

FetchIdle ==
    /\ fPc = "idle"
    /\ fSkillPath = <<>>
    /\ fFolder = <<>>
    /\ fRemote = [b \in {"main", "master"} |-> Failed("notok")]
    /\ fIdx = 1
    /\ fRequests = <<>>
    /\ fResult = NoResult

(***************************************************************************)
(* add.ts: the lock entries the add flows hand to addSkillToLock.  A       *)
(* remote answer is what fetchSkillFolderHash returned: a sha or null.     *)
(***************************************************************************)
H1 == <<"h1">>
H2 == <<"h2">>
EmptyHash == <<>>

ShaAnswer(h) == [kind |-> "sha", sha |-> h]
NullAnswer == [kind |-> "null", sha |-> NoSha]
ThrowAnswer == [kind |-> "threw", sha |-> NoSha]

Truthy(str) == str # Undefined /\ str # <<>>

\* runAdd, lines 804-817.
RunAddEntry(parsedType, normalizedSource, url, skillPathValue, answer) ==
    [source |-> normalizedSource, sourceType |-> parsedType, sourceUrl |-> url,
     skillPath |-> skillPathValue,
     skillFolderHash |->
        IF parsedType = "github" /\ Truthy(skillPathValue) /\ answer.kind = "sha"
        THEN answer.sha ELSE EmptyHash]

\* A direct-URL entry that records the URL as its skillPath.
RemoteSkillEntry_WithPath(providerId, sourceIdentifier, url, answer) ==
    [source |-> sourceIdentifier, sourceType |-> providerId, sourceUrl |-> url,
     skillPath |-> <<Manifest>>,
     skillFolderHash |->
        IF providerId = "github" /\ answer.kind = "sha" THEN answer.sha ELSE EmptyHash]

\* handleRemoteSkill, lines 182-193: no skillPath is recorded.
RemoteSkillEntry(providerId, sourceIdentifier, url, answer) ==
    [source |-> sourceIdentifier, sourceType |-> providerId, sourceUrl |-> url,
     skillPath |-> Undefined,
     skillFolderHash |->
        IF providerId = "github" /\ answer.kind = "sha" THEN answer.sha ELSE EmptyHash]

\* handleWellKnownSkills, lines 381-386.
WellKnownEntry(sourceIdentifier, sourceUrl) ==
    [source |-> sourceIdentifier, sourceType |-> "well-known", sourceUrl |-> sourceUrl,
     skillPath |-> Undefined, skillFolderHash |-> EmptyHash]

\* handleDirectUrlSkillLegacy, lines 516-521.
LegacyEntry(site, url) ==
    [source |-> <<"mintlify/">> \o site, sourceType |-> "mintlify", sourceUrl |-> url,
     skillPath |-> Undefined, skillFolderHash |-> EmptyHash]

(***************************************************************************)
(* cli.ts: runCheck and runUpdate.                                         *)
(***************************************************************************)
\* Object.keys(lock.skills): the names of the map, in one fixed order.
KeyOrder == <<NameA, NameB, NameC>>

RECURSIVE KeysFrom(_, _)
KeysFrom(skills, i) ==
    IF i > Len(KeyOrder) THEN <<>>
    ELSE IF KeyOrder[i] \in DOMAIN skills
         THEN <<KeyOrder[i]>> \o KeysFrom(skills, i + 1)
         ELSE KeysFrom(skills, i + 1)

Keys(skills) == KeysFrom(skills, 1)

SeqToSet(q) == {q[i] : i \in 1..Len(q)}

\* A guard that forgets the skillPath test (used to test C9's formula).
SkippedByCheck_IgnoresPath(entry) ==
    entry.sourceType # "github" \/ ~Truthy(entry.skillFolderHash)

\* runCheck, line 251.
SkippedByCheck(entry) ==
    entry.sourceType # "github" \/ ~Truthy(entry.skillFolderHash) \/ ~Truthy(entry.skillPath)

\* runUpdate, line 348.
SkippedByUpdate(entry) ==
    entry.sourceType # "github" \/ ~Truthy(entry.skillFolderHash) \/ ~Truthy(entry.skillPath)

\* skillsBySource (lines 244-259) read back by the loops of lines 272-273: the names
\* grouped by source, sources in order of first appearance.
RECURSIVE GroupBySource(_, _)
GroupBySource(names, skills) ==
    IF names = <<>> THEN <<>>
    ELSE LET src == skills[names[1]].source
             same(n) == skills[n].source = src
             other(n) == skills[n].source # src
         IN  SelectSeq(names, same) \o GroupBySource(SelectSeq(names, other), skills)

\* A comparison that forgets the null test (used to test C8's formula).
ClassifyCheck_NullIsUpdate(answer, entry) ==
    IF answer.kind = "threw" THEN "error"
    ELSE IF answer.kind = "null" THEN "update"
    ELSE IF answer.sha # entry.skillFolderHash THEN "update"
    ELSE "current"

\* runCheck, lines 274-291: what one lookup leads to.
ClassifyCheck(answer, entry) ==
    IF answer.kind = "threw" THEN "error"               \* catch
    ELSE IF answer.kind = "null" THEN "error"           \* !latestHash
    ELSE IF answer.sha # entry.skillFolderHash THEN "update"
    ELSE "current"

\* A comparison in runUpdate that takes a null answer for a different hash.
ClassifyUpdate_NullIsUpdate(answer, entry) ==
    IF answer.kind = "threw" THEN "current"
    ELSE IF answer.kind = "null" THEN "update"
    ELSE IF answer.sha # entry.skillFolderHash THEN "update"
    ELSE "current"

\* runUpdate, lines 354-362.
ClassifyUpdate(answer, entry) ==
    IF answer.kind = "threw" THEN "current"             \* catch: skip
    ELSE IF answer.kind = "sha" /\ answer.sha # entry.skillFolderHash THEN "update"
    ELSE "current"

\* Inputs: the answers of the remote, and the lock entries the add flows can have written.
RemoteAnswers == {NullAnswer, ThrowAnswer, ShaAnswer(H1), ShaAnswer(H2)}

AddAnswers == {NullAnswer, ShaAnswer(H1)}

ProducedEntries ==
    { RunAddEntry(t, src, "https://host/o/r.git", sp, a) :
        t \in {"github", "gitlab", "git"}, src \in {<<"o/r">>}, sp \in { <<Manifest>>, <<"d", Slash, Manifest>> },
        a \in AddAnswers }
    \cup { RunAddEntry("github", <<"o/q">>, "https://github.com/o/q.git", <<"d", Slash, Manifest>>, ShaAnswer(H1)) }
    \cup { RemoteSkillEntry(pid, <<"o/r">>, "https://host/raw/SKILL.md", a) :
             pid \in {"github", "huggingface"}, a \in AddAnswers }
    \cup { WellKnownEntry(<<"wellknown/site">>, "https://site/x") }
    \cup { LegacyEntry(NameC, "https://site/skill.md") }

CheckNames == {NameA, NameB, NameC}

ProducedLocks ==
    UNION { [S -> {Stored(e, 0) : e \in ProducedEntries}] : S \in SUBSET CheckNames }

CheckIdle ==
    /\ cCmd = "none"
    /\ cPc = "idle"
    /\ cLock = NoSkills
    /\ cNames = <<>>
    /\ cQueue = <<>>
    /\ cSkipped = 0
    /\ cChecked = <<>>
    /\ cLooked = <<>>
    /\ cUpdates = <<>>
    /\ cErrors = <<>>
    /\ cTodo = <<>>
    /\ cSpawned = <<>>
    /\ cSuccess = 0
    /\ cFail = 0
    /\ cMsg = "none"

\* The lock store at rest, for the specifications that do not use it.
LockIdle ==
    /\ lockFile = MissingFile
    /\ clock = 1
    /\ lastOp = NoOp
    /\ readRes = [async |-> NoSkills, sync |-> NoSkills]
    /\ firstAdd = [n \in LockNames |-> NoTime]
    /\ lastAdd = [n \in LockNames |-> NoTime]

(***************************************************************************)
(* add.ts and installer.ts: the add flows.                                 *)
(*                                                                         *)
(* A skill is [name, installName, path]: path is where discovery found it  *)
(* under the directory searched, <<>> for the directory itself.  runAdd    *)
(* reads name and path, the well-known and remote flows read installName.  *)
(***************************************************************************)
NotExited == 0 - 1

Star == <<"*">>

Skill(name, installName, path) == [name |-> name, installName |-> installName, path |-> path]

\* String.prototype.toLowerCase, over the letters the names are made of.
toLowerCase(str) == [i \in 1..Len(str) |-> IF str[i] = "A" THEN "a" ELSE str[i]]

\* .replace(/[^a-z0-9._]+/g, '-'): every run of other characters becomes one hyphen
\* (the characters kept are those of [a-z0-9._] the names here are made of).  inRun
\* tells whether such a run is under way where str begins.
ReplaceRuns(str, inRun) ==
    LET kept(c) == c \in {"a", "b", "c", "z", "0", ".", "_"}
        marked == [i \in 1..Len(str) |->
                     [ch |-> IF kept(str[i]) THEN str[i] ELSE "-",
                      first |-> kept(str[i]) \/ (IF i = 1 THEN ~inRun ELSE kept(str[i - 1]))]]
        chosen == SelectSeq(marked, LAMBDA m : m.first)
    IN  [i \in 1..Len(chosen) |-> chosen[i].ch]

\* .replace(/^[.\-]+|[.\-]+$/g, ''): dots and hyphens are cut from both ends.
StripLeading(str) ==
    LET others == {i \in 1..Len(str) : str[i] \notin {".", "-"}}
    IN  IF others = {} THEN <<>>
        ELSE SubSeq(str, CHOOSE i \in others : \A j \in others : i <= j, Len(str))

StripTrailing(str) ==
    LET others == {i \in 1..Len(str) : str[i] \notin {".", "-"}}
    IN  IF others = {} THEN <<>>
        ELSE SubSeq(str, 1, CHOOSE i \in others : \A j \in others : i >= j)

\* The length sanitizeName cuts names to.
NameCut == 255

\* sanitizeName: the name is lowered, cleaned and stripped, then cut by substring(0, 255);
\* the placeholder stands in for an empty outcome.
sanitizeName(name) ==
    LET sanitized == StripTrailing(StripLeading(ReplaceRuns(toLowerCase(name), FALSE)))
        kept == SubSeq(sanitized, 1,
                       IF Len(sanitized) < NameCut THEN Len(sanitized) ELSE NameCut)
    IN  IF kept = <<>> THEN <<"unnamed-skill">> ELSE kept

\* path.join and resolve: how deep under the base a segment leaves the path.
DepthAfter(segment, depth) ==
    IF segment = <<".", ".">> THEN depth - 1
    ELSE IF segment \in {<<>>, <<".">>} THEN depth
    ELSE depth + 1

\* Whether base/relative, once resolved, has climbed above base: after one of its
\* segments the path is higher than base.
Escapes(relative) ==
    LET n == Len(relative)
        cuts == {i \in 1..n : relative[i] = Slash} \cup {n + 1}
        segment(c) ==
            LET before == {q \in cuts \cup {0} : q < c}
                from == CHOOSE q \in before : \A r \in before : r <= q
            IN  SubSeq(relative, from + 1, c - 1)
        step(c) == DepthAfter(segment(c), 0)
        depth(c) == Cardinality({d \in cuts : d <= c /\ step(d) = 1})
                      - Cardinality({d \in cuts : d <= c /\ step(d) = 0 - 1})
    IN  \E c \in cuts : depth(c) < 0

\* isPathSafe(basePath, join(basePath, relative)): the resolved target is the base or
\* lies under it.
isPathSafe(relative) == ~Escapes(relative)

\* What a skill directory under the target directory holds.
Dir(state, from) == [state |-> state, from |-> from]
Absent == Dir("absent", <<>>)

InstallOutcomes == {"ok", "mkdir-throws", "copy-throws"}

\* cleanAndCreateDirectory, then the copy: what the directory holds afterwards.
DirAfterInstall(before, name, outcome) ==
    CASE outcome = "ok" -> Dir("installed", name)
      [] outcome = "mkdir-throws" -> Absent
      [] outcome = "copy-throws" -> Dir("partial", name)

\* installSkill: the result it returns and the directory it leaves.
installSkill(skill, dirs, outcome) ==
    LET skillName == sanitizeName(skill.name)
    IN  IF ~isPathSafe(skillName)
        THEN [success |-> FALSE, path |-> skillName, dirs |-> dirs]
        ELSE [success |-> outcome = "ok", path |-> skillName,
              dirs |-> [dirs EXCEPT ![skillName] = DirAfterInstall(dirs[skillName], skill.name, outcome)]]

\* installWellKnownSkill and installRemoteSkill: the same, under installName.
installByInstallName(skill, dirs, outcome) ==
    LET skillName == sanitizeName(skill.installName)
    IN  IF ~isPathSafe(skillName)
        THEN [success |-> FALSE, path |-> skillName, dirs |-> dirs]
        ELSE [success |-> outcome = "ok", path |-> skillName,
              dirs |-> [dirs EXCEPT ![skillName] = DirAfterInstall(dirs[skillName], skill.installName, outcome)]]

\* A check that finds no skill installed.
isSkillInstalled_Never(skillName, dirs) == FALSE

\* isSkillInstalled: access() succeeds on the directory of the sanitized name.
isSkillInstalled(skillName, dirs) ==
    LET sanitized == sanitizeName(skillName)
    IN  IF ~isPathSafe(sanitized) THEN FALSE
        ELSE dirs[sanitized].state # "absent"

\* runAdd, lines 697-720: per selected skill, whether the summary carries the line
\* 'overwrites existing skill' (overwriteStatus.get(skill.name)).
OverwriteChecks(selected, dirs) ==
    [i \in 1..Len(selected) |-> isSkillInstalled(selected[i].name, dirs)]

\* handleWellKnownSkills, lines 314-327: its summary has no such line.
NoAdvisory(selected) == [i \in 1..Len(selected) |-> FALSE]

\* The directories an install may write, under the target directory.
DirNames == { sanitizeName(n) : n \in {NameA, NameUpperA, NameB, NameC} }

\* No add run has begun.
AddAtRest ==
    /\ aPc = "idle"
    /\ aOverwrites = <<>>
    /\ aFlow = "none"
    /\ aParsed = [type |-> "none", url |-> "", source |-> Undefined, provider |-> "none",
                  skillFilter |-> Undefined]
    /\ aOptions = [skill |-> <<>>, yes |-> FALSE, list |-> FALSE, all |-> FALSE]
    /\ aTempDir = "null"
    /\ aSkills = <<>>
    /\ aSelected = <<>>
    /\ aAnswer = <<>>
    /\ aCalls = <<>>
    /\ aResults = <<>>
    /\ aSuccessful = <<>>
    /\ aFailed = <<>>
    /\ aLockAt = 0
    /\ aLockLog = <<>>
    /\ aReported = <<>>
    /\ aExit = NotExited

\* The add flow at rest, for the specifications that do not use it.
AddIdle ==
    /\ AddAtRest
    /\ aLock0 = NoSkills
    /\ aDirs = [d \in DirNames |-> Absent]

(***************************************************************************)
(* One installer call, file by file (installer.ts).  A file is its path    *)
(* relative to the skill's folder; an install directory is                 *)
(* [exists, files], files being the paths present in it.                   *)
(***************************************************************************)
InstallDir(exists, files) == [exists |-> exists, files |-> files]

\* isExcluded, for a file: README.md, metadata.json and names that begin with '_'.
isExcluded(file) ==
    \/ file \in {<<"README.md">>, <<"metadata.json">>}
    \/ file # <<>> /\ Head(file) = "_"

\* cleanAndCreateDirectory up to its mkdir: rm's errors are dropped, so what rm left
\* behind (nothing when it succeeded) stays in the directory mkdir then makes sure of.
cleanAndCreateDirectory(dir, left) == InstallDir(TRUE, left)

\* copyDirectory: every entry that is not excluded is copied.
copyDirectory(files) == { f \in files : ~isExcluded(f) }

\* The loop of installWellKnownSkill: a file whose path leaves the install directory
\* is passed over, the others are written.
WrittenWellKnown(files) == { f \in files : isPathSafe(f) }

\* No installer call has been made.
NoInstall == [success |-> FALSE, path |-> <<>>]

InstallIdle ==
    /\ iPc = "idle"
    /\ iFn = "none"
    /\ iName = <<>>
    /\ iFiles = {}
    /\ iDir = InstallDir(FALSE, {})
    /\ iSkipped = {}
    /\ iResult = NoInstall

\* removeCommand has not been called.
RemoveAtRest ==
    /\ rPc = "idle"
    /\ rNames = <<>>
    /\ rAll = FALSE
    /\ rInstalled = <<>>
    /\ rSelected = <<>>
    /\ rResults = <<>>
    /\ rMsg = "none"
    /\ rExit = NotExited

RemoveIdle ==
    /\ RemoveAtRest
    /\ rAdded = {}
    /\ rManifests = {}
    /\ rDirs = {}
    /\ rDirs0 = {}
    /\ rLock0 = NoSkills

\* parseAddOptions has not been called; what it returns for no argument.
NoOptions ==
    [yes |-> FALSE, list |-> FALSE, all |-> FALSE, targetDir |-> Undefined,
     skill |-> <<>>, fullDepth |-> FALSE]

OptionsIdle ==
    /\ pPc = "idle"
    /\ pArgs = <<>>
    /\ pResult = [source |-> <<>>, options |-> NoOptions]
    /\ pSuffix = Undefined
    /\ pFound = <<>>
    /\ pEnv = "unset"
    /\ pOptions = NoOptions
    /\ pSkills = <<>>

\* The two processes that call the lock store at once.
Procs == {"p1", "p2"}

RaceIdle ==
    /\ qPc = [p \in Procs |-> "idle"]
    /\ qCall = [p \in Procs |-> [op |-> "none", name |-> NameA]]
    /\ qRead = [p \in Procs |-> MissingFile]
    /\ qFile0 = NoSkills
    /\ qEvents = <<>>

\* find.ts: debounceTimer = null, and the promise of the prompt not resolved yet.
NoTimer == 0 - 1
NoSkill == <<>>
Unresolved == <<"unresolved">>

\* runSearchPrompt has not been called.
SearchIdle ==
    /\ sPc = "idle"
    /\ sQuery = <<>>
    /\ sResults = <<>>
    /\ sSelectedIndex = 0
    /\ sLoading = FALSE
    /\ sDebounceTimer = NoTimer
    /\ sTimers = {}
    /\ sRequests = {}
    /\ sNextTimer = 1
    /\ sResolved = Unresolved

(***************************************************************************)
(* Actions of fetchSkillFolderHash.                                        *)
(***************************************************************************)
\* The call is made: the folder path is computed and the loop entered.
FetchCall(skillPath, remote) ==
    /\ fPc = "idle"
    /\ fPc' = "loop"
    /\ fSkillPath' = skillPath
    /\ fFolder' = FolderPathOf(skillPath)
    /\ fRemote' = remote
    /\ fIdx' = 1
    /\ fRequests' = <<>>
    /\ fResult' = NoResult
    /\ UNCHANGED otherThanFetch

\* One iteration: request the branch's tree and act on the answer.
FetchBranch ==
    /\ fPc = "loop"
    /\ fIdx <= Len(branches)
    /\ LET branch == branches[fIdx]
           out == BranchOutcome(fRemote[branch], fFolder)
       IN  /\ fRequests' = Append(fRequests, branch)
           /\ IF out.kind = "return"
              THEN /\ fResult' = [kind |-> "sha", sha |-> out.sha]
                   /\ fPc' = "done"
                   /\ fIdx' = fIdx
              ELSE IF out.kind = "throw"
              THEN /\ fResult' = [kind |-> "threw", sha |-> NoSha]
                   /\ fPc' = "done"
                   /\ fIdx' = fIdx
              ELSE /\ fResult' = fResult
                   /\ fPc' = "loop"
                   /\ fIdx' = fIdx + 1
    /\ UNCHANGED <<fSkillPath, fFolder, fRemote>>
    /\ UNCHANGED otherThanFetch

\* The loop ran out of branches: return null.
FetchReturnNull ==
    /\ fPc = "loop"
    /\ fIdx > Len(branches)
    /\ fResult' = [kind |-> "null", sha |-> NoSha]
    /\ fPc' = "done"
    /\ UNCHANGED <<fSkillPath, fFolder, fRemote, fIdx, fRequests>>
    /\ UNCHANGED otherThanFetch

InitFetch ==
    FetchIdle /\ LockIdle /\ CheckIdle /\ AddIdle /\ InstallIdle /\ RemoveIdle /\ OptionsIdle /\ RaceIdle /\ SearchIdle

NextFetch ==
    \/ \E p \in SkillPaths, r \in Remotes : FetchCall(p, r)
    \/ FetchBranch
    \/ FetchReturnNull

SpecFetch == InitFetch /\ [][NextFetch]_vars

(***************************************************************************)
(* Claims about fetchSkillFolderHash (checked under SpecFetch).            *)
(***************************************************************************)
IsPrefix(s, t) == Len(s) <= Len(t) /\ SubSeq(t, 1, Len(s)) = s

YieldsListing(b) == fRemote[b].kind = "ok"

HasFolder(b) ==
    \E e \in fRemote[b].tree : e.type = "tree" /\ e.path = fFolder

C10_OrderAndNoThrow ==
    /\ IsPrefix(fRequests, <<"main", "master">>)
    /\ fResult.kind # "threw"
    /\ fResult.kind = "null" => fRequests = <<"main", "master">>

\* The claim as written: null as soon as some branch's listing lacks the folder.
C10_Original ==
    fPc = "done" =>
        /\ C10_OrderAndNoThrow
        /\ (\A b \in {"main", "master"} : ~YieldsListing(b)) => fResult.kind = "null"
        /\ (fFolder # <<>> /\ \E b \in {"main", "master"} : YieldsListing(b) /\ ~HasFolder(b))
              => fResult.kind = "null"

\* C10 (amended): fetchSkillFolderHash requests the branches in the order main, master,
\* never throws on a failed request, and returns null if no branch yields a listing or if
\* the folder is absent, as a directory entry, from every listing the branches yielded.
C10_NullWhenNoListingHasFolder ==
    fPc = "done" =>
        /\ C10_OrderAndNoThrow
        /\ (\A b \in {"main", "master"} : ~YieldsListing(b)) => fResult.kind = "null"
        /\ (fFolder # <<>> /\ \A b \in {"main", "master"} : YieldsListing(b) => ~HasFolder(b))
              => fResult.kind = "null"

\* main fails, master lists the repository without the folder: null after both requests.
C10_Witness ==
    /\ fPc = "done"
    /\ fFolder = <<"d">>
    /\ fRemote["main"].kind = "neterr"
    /\ YieldsListing("master") /\ ~HasFolder("master")
    /\ fRequests = <<"main", "master">>
    /\ fResult.kind = "null"

\* The first branch, in the order requested, whose request yields a listing.
C11_FirstListing ==
    branches[CHOOSE i \in 1..Len(branches) :
                /\ YieldsListing(branches[i])
                /\ \A j \in 1..(i - 1) : ~YieldsListing(branches[j])]

\* C11: a skill path that is empty, the manifest name, or a slash and the manifest name
\* reduces to the empty folder path; with the empty folder path the call returns the
\* root tree hash of the first branch that yields a listing; with any other folder
\* path a hash returned is that of the directory entry, in the branch requested last,
\* whose path is the folder path.
C11_RootOrExactFolder ==
    /\ (fPc # "idle" /\ fSkillPath \in {<<>>, <<Manifest>>, <<Slash, Manifest>>})
          => fFolder = <<>>
    /\ (fPc = "done" /\ fFolder = <<>> /\ \E b \in {"main", "master"} : YieldsListing(b))
          => fResult = [kind |-> "sha", sha |-> fRemote[C11_FirstListing].sha]
    /\ (fPc = "done" /\ fFolder # <<>> /\ fResult.kind = "sha")
          => \E e \in fRemote[fRequests[Len(fRequests)]].tree :
                e.type = "tree" /\ e.path = fFolder /\ e.sha = fResult.sha

\* The path is the bare manifest name, main gives no listing, master's root hash is returned.
C11_Witness ==
    /\ fPc = "done"
    /\ fSkillPath = <<Manifest>>
    /\ ~YieldsListing("main")
    /\ YieldsListing("master")
    /\ fResult = [kind |-> "sha", sha |-> fRemote["master"].sha]

(***************************************************************************)
(* Actions of the lock store specification.                                *)
(***************************************************************************)
\* Time passes between calls.
Tick ==
    /\ clock < MaxClock
    /\ clock' = clock + 1
    /\ lastOp' = NoOp
    /\ UNCHANGED <<lockFile, readRes, firstAdd, lastAdd>>
    /\ UNCHANGED otherThanLock

\* One call of addSkillToLock; writeOk = FALSE is mkdir or writeFile throwing.
LockAdd(skillName, entry, writeOk) ==
    /\ lockFile' = IF writeOk THEN writeSkillLock(addSkillToLock(lockFile, skillName, entry, clock))
                   ELSE lockFile
    /\ lastOp' = [op |-> "add", name |-> skillName, given |-> entry, threw |-> ~writeOk,
                  ret |-> FALSE, wrote |-> writeOk, now |-> clock]
    /\ firstAdd' = IF writeOk /\ firstAdd[skillName] = NoTime
                   THEN [firstAdd EXCEPT ![skillName] = clock] ELSE firstAdd
    /\ lastAdd' = IF writeOk THEN [lastAdd EXCEPT ![skillName] = clock] ELSE lastAdd
    /\ UNCHANGED <<clock, readRes>>
    /\ UNCHANGED otherThanLock

\* One call of removeSkillFromLock.
LockRemove(skillName, writeOk) ==
    LET r == removeSkillFromLock(lockFile, skillName)
    IN  /\ lockFile' = IF r.found /\ writeOk THEN writeSkillLock(r.lock) ELSE lockFile
        /\ lastOp' = [op |-> "remove", name |-> skillName, given |-> GivenGithub,
                      threw |-> r.found /\ ~writeOk,
                      ret |-> r.found /\ writeOk,
                      wrote |-> r.found /\ writeOk, now |-> clock]
        /\ firstAdd' = IF r.found /\ writeOk THEN [firstAdd EXCEPT ![skillName] = NoTime]
                       ELSE firstAdd
        /\ lastAdd' = IF r.found /\ writeOk THEN [lastAdd EXCEPT ![skillName] = NoTime]
                      ELSE lastAdd
        /\ UNCHANGED <<clock, readRes>>
        /\ UNCHANGED otherThanLock

\* Both readers applied to the file as it is.
LockRead ==
    /\ readRes' = [async |-> readSkillLock(lockFile).skills,
                   sync |-> readSkillLockSync(lockFile).skills]
    /\ lastOp' = [NoOp EXCEPT !.op = "read"]
    /\ UNCHANGED <<lockFile, clock, firstAdd, lastAdd>>
    /\ UNCHANGED otherThanLock

InitLock ==
    LockStoreStart /\ FetchIdle /\ CheckIdle /\ AddIdle /\ InstallIdle /\ RemoveIdle /\ OptionsIdle /\ RaceIdle /\ SearchIdle

NextLock ==
    \/ Tick
    \/ \E n \in LockNames, e \in GivenEntries, ok \in BOOLEAN : LockAdd(n, e, ok)
    \/ \E n \in LockNames, ok \in BOOLEAN : LockRemove(n, ok)
    \/ LockRead

SpecLock == InitLock /\ [][NextLock]_vars

(***************************************************************************)
(* Claims about the lock store (checked under SpecLock).                   *)
(***************************************************************************)
Tracked == readSkillLock(lockFile).skills
TrackedNext == readSkillLock(lockFile').skills

C5_HistoryStamps ==
    \A n \in DOMAIN Tracked :
        /\ Tracked[n].installedAt = firstAdd[n]
        /\ Tracked[n].updatedAt = lastAdd[n]

C5_AddStep ==
    (lastOp'.op = "add" /\ ~lastOp'.threw) =>
        LET n == lastOp'.name
            g == lastOp'.given
            e == TrackedNext[n]
        IN  /\ DOMAIN TrackedNext = DOMAIN Tracked \cup {n}
            /\ \A m \in DOMAIN Tracked \ {n} : TrackedNext[m] = Tracked[m]
            /\ e.updatedAt = lastOp'.now
            /\ e.installedAt = IF n \in DOMAIN Tracked THEN Tracked[n].installedAt
                               ELSE lastOp'.now
            /\ e.source = g.source /\ e.sourceType = g.sourceType
            /\ e.sourceUrl = g.sourceUrl /\ e.skillPath = g.skillPath
            /\ e.skillFolderHash = g.skillFolderHash

\* C5: over any sequence of completed addSkillToLock calls on a name (no removal in
\* between) the entry's installedAt is the time of the first call and updatedAt the time
\* of the latest; a call on an absent name sets both to now; every call replaces the
\* other fields by the given ones and leaves all other entries as they were.
C5_AddKeepsInstalledAt == [](C5_HistoryStamps) /\ [][C5_AddStep]_vars

\* A name added at time 1 and again at time 2, beside another tracked name.
C5_Witness ==
    /\ lastOp.op = "add" /\ ~lastOp.threw
    /\ lastOp.name \in DOMAIN Tracked
    /\ firstAdd[lastOp.name] = 1
    /\ Tracked[lastOp.name].installedAt = 1
    /\ Tracked[lastOp.name].updatedAt = 2
    /\ Cardinality(DOMAIN Tracked) = 2

C6_TreatedAsEmpty(file) ==
    \/ file.kind = "missing"
    \/ file.kind = "garbage"
    \/ ~file.vnum
    \/ ~file.hasSkills
    \/ file.version < 3

\* C6: both readers yield zero tracked skills when the file is missing, is not JSON, has
\* no numeric version, has no skills map or has a version below 3, and yield the stored
\* skills unchanged in every other case.
C6_ReadersGuardSchema ==
    lastOp.op = "read" =>
        IF C6_TreatedAsEmpty(lockFile)
        THEN readRes.async = NoSkills /\ readRes.sync = NoSkills
        ELSE readRes.async = lockFile.skills /\ readRes.sync = lockFile.skills

\* A schema-1 file that holds an entry has just been read.
C6_Witness ==
    /\ lastOp.op = "read"
    /\ lockFile.kind = "json" /\ lockFile.vnum /\ lockFile.version = 1
    /\ NameA \in DOMAIN lockFile.skills
    /\ readRes.async = NoSkills

C7_RemoveStep ==
    (lastOp'.op = "remove" /\ ~lastOp'.threw) =>
        LET n == lastOp'.name
        IN  IF n \in DOMAIN Tracked
            THEN /\ lastOp'.ret
                 /\ DOMAIN TrackedNext = DOMAIN Tracked \ {n}
                 /\ \A m \in DOMAIN TrackedNext : TrackedNext[m] = Tracked[m]
            ELSE /\ ~lastOp'.ret
                 /\ ~lastOp'.wrote
                 /\ lockFile' = lockFile

\* C7: removeSkillFromLock(name) returns true and deletes exactly that entry when it is
\* present; when it is absent it returns false and does not rewrite the file; every
\* other entry is unchanged either way.
C7_RemoveDeletesOnlyName == [][C7_RemoveStep]_vars

\* An entry was removed while the other one stayed.
C7_Witness ==
    /\ lastOp.op = "remove" /\ lastOp.ret
    /\ lastOp.name = NameA
    /\ DOMAIN Tracked = {NameB}


(***************************************************************************)
(* Actions of runCheck (cli.ts, lines 229-324).                            *)
(***************************************************************************)
\* Lines 233-240: read the lock; nothing tracked ends the command.
CheckBegin ==
    /\ cPc = "idle"
    /\ cCmd' = "check"
    /\ cLock' = readSkillLockSync(lockFile).skills
    /\ IF Keys(cLock') = <<>>
       THEN cPc' = "done" /\ cMsg' = "no-tracked" /\ cNames' = <<>>
       ELSE cPc' = "scan" /\ cMsg' = cMsg /\ cNames' = Keys(cLock')
    /\ UNCHANGED <<cQueue, cSkipped, cChecked, cLooked, cUpdates, cErrors, cTodo, cSpawned,
                   cSuccess, cFail>>
    /\ UNCHANGED <<lockVars, otherThanCheck>>

\* Lines 247-259, one entry: skip it or group it under its source.
CheckScan ==
    /\ cCmd = "check" /\ cPc = "scan" /\ cNames # <<>>
    /\ LET n == Head(cNames)
       IN  IF SkippedByCheck(cLock[n])
           THEN cSkipped' = cSkipped + 1 /\ cChecked' = cChecked
           ELSE cSkipped' = cSkipped /\ cChecked' = Append(cChecked, n)
    /\ cNames' = Tail(cNames)
    /\ UNCHANGED <<cCmd, cPc, cLock, cQueue, cLooked, cUpdates, cErrors, cTodo, cSpawned,
                   cSuccess, cFail, cMsg>>
    /\ UNCHANGED <<lockVars, otherThanCheck>>

\* Lines 261-267: nothing left to check ends the command.
CheckTotal ==
    /\ cCmd = "check" /\ cPc = "scan" /\ cNames = <<>>
    /\ IF Len(Keys(cLock)) - cSkipped = 0
       THEN cPc' = "done" /\ cMsg' = "no-github" /\ cQueue' = <<>>
       ELSE cPc' = "lookup" /\ cMsg' = cMsg /\ cQueue' = GroupBySource(cChecked, cLock)
    /\ UNCHANGED <<cCmd, cLock, cNames, cSkipped, cChecked, cLooked, cUpdates, cErrors, cTodo,
                   cSpawned, cSuccess, cFail>>
    /\ UNCHANGED <<lockVars, otherThanCheck>>

\* Lines 272-292, one entry: look the folder hash up and compare.
CheckLookup(answer) ==
    /\ cCmd = "check" /\ cPc = "lookup" /\ cQueue # <<>>
    /\ LET n == Head(cQueue)
           class == ClassifyCheck(answer, cLock[n])
       IN  /\ cLooked' = Append(cLooked, <<n, answer>>)
           /\ cUpdates' = IF class = "update" THEN Append(cUpdates, n) ELSE cUpdates
           /\ cErrors' = IF class = "error" THEN Append(cErrors, n) ELSE cErrors
    /\ cQueue' = Tail(cQueue)
    /\ UNCHANGED <<cCmd, cPc, cLock, cNames, cSkipped, cChecked, cTodo, cSpawned, cSuccess,
                   cFail, cMsg>>
    /\ UNCHANGED <<lockVars, otherThanCheck>>

\* Lines 295-323: the report.
CheckReport ==
    /\ cCmd = "check" /\ cPc = "lookup" /\ cQueue = <<>>
    /\ cPc' = "done"
    /\ cMsg' = IF cUpdates = <<>> THEN "up-to-date" ELSE "updates-available"
    /\ UNCHANGED <<cCmd, cLock, cNames, cQueue, cSkipped, cChecked, cLooked, cUpdates, cErrors,
                   cTodo, cSpawned, cSuccess, cFail>>
    /\ UNCHANGED <<lockVars, otherThanCheck>>

(***************************************************************************)
(* Actions of runUpdate (cli.ts, lines 326-430).                           *)
(***************************************************************************)
\* Lines 330-337.
UpdateBegin ==
    /\ cPc = "idle"
    /\ cCmd' = "update"
    /\ cLock' = readSkillLockSync(lockFile).skills
    /\ IF Keys(cLock') = <<>>
       THEN cPc' = "done" /\ cMsg' = "no-tracked" /\ cNames' = <<>>
       ELSE cPc' = "scan" /\ cMsg' = cMsg /\ cNames' = Keys(cLock')
    /\ UNCHANGED <<cQueue, cSkipped, cChecked, cLooked, cUpdates, cErrors, cTodo, cSpawned,
                   cSuccess, cFail>>
    /\ UNCHANGED <<lockVars, otherThanCheck>>

\* Lines 344-363, one entry: skip it, or count it, look its hash up and compare.
UpdateScan(answer) ==
    /\ cCmd = "update" /\ cPc = "scan" /\ cNames # <<>>
    /\ LET n == Head(cNames)
       IN  IF SkippedByUpdate(cLock[n])
           THEN UNCHANGED <<cChecked, cLooked, cUpdates>>
           ELSE /\ cChecked' = Append(cChecked, n)
                /\ cLooked' = Append(cLooked, <<n, answer>>)
                /\ cUpdates' = IF ClassifyUpdate(answer, cLock[n]) = "update"
                               THEN Append(cUpdates, n) ELSE cUpdates
    /\ cNames' = Tail(cNames)
    /\ UNCHANGED <<cCmd, cPc, cLock, cQueue, cSkipped, cErrors, cTodo, cSpawned, cSuccess,
                   cFail, cMsg>>
    /\ UNCHANGED <<lockVars, otherThanCheck>>

\* Lines 365-377.
UpdateTotal ==
    /\ cCmd = "update" /\ cPc = "scan" /\ cNames = <<>>
    /\ IF Len(cChecked) = 0
       THEN cPc' = "done" /\ cMsg' = "no-skills" /\ cTodo' = <<>>
       ELSE IF cUpdates = <<>>
       THEN cPc' = "done" /\ cMsg' = "up-to-date" /\ cTodo' = <<>>
       ELSE cPc' = "reinstall" /\ cMsg' = cMsg /\ cTodo' = cUpdates
    /\ UNCHANGED <<cCmd, cLock, cNames, cQueue, cSkipped, cChecked, cLooked, cUpdates, cErrors,
                   cSpawned, cSuccess, cFail>>
    /\ UNCHANGED <<lockVars, otherThanCheck>>

\* A loop that gives up at the first reinstall that fails.
RestOfUpdates_StopsAtFailure(status, todo) == IF status = 0 THEN Tail(todo) ELSE <<>>

\* Line 382, `for (const update of updates)': whatever the child's exit status, the
\* loop goes on with the following update.
RestOfUpdates(status, todo) == Tail(todo)

\* Lines 382-412, one update: spawn `skulls add <url> -y' and count its exit status.
\* The child is an add run of its own; of its effects the model keeps that it may have
\* rewritten the skill's lock entry, with the hash the remote answered it.
UpdateReinstall(status, childWrote, answer) ==
    /\ cCmd = "update" /\ cPc = "reinstall" /\ cTodo # <<>>
    /\ LET n == Head(cTodo)
           e == cLock[n]
       IN  /\ cSpawned' = Append(cSpawned, n)
           /\ lockFile' = IF childWrote
                          THEN writeSkillLock(addSkillToLock(lockFile, n,
                                  RunAddEntry("github", e.source, e.sourceUrl, e.skillPath, answer),
                                  clock))
                          ELSE lockFile
    /\ cSuccess' = IF status = 0 THEN cSuccess + 1 ELSE cSuccess
    /\ cFail' = IF status = 0 THEN cFail ELSE cFail + 1
    /\ cTodo' = RestOfUpdates(status, cTodo)
    /\ UNCHANGED <<cCmd, cPc, cLock, cNames, cQueue, cSkipped, cChecked, cLooked, cUpdates,
                   cErrors, cMsg>>
    /\ UNCHANGED <<lockHistory, otherThanCheck>>

\* Lines 414-429.
UpdateReport ==
    /\ cCmd = "update" /\ cPc = "reinstall" /\ cTodo = <<>>
    /\ cPc' = "done"
    /\ cMsg' = "updated"
    /\ UNCHANGED <<cCmd, cLock, cNames, cQueue, cSkipped, cChecked, cLooked, cUpdates, cErrors,
                   cTodo, cSpawned, cSuccess, cFail>>
    /\ UNCHANGED <<lockVars, otherThanCheck>>

\* The lock file holds what earlier add runs wrote.
CheckStart ==
    /\ lockFile \in {writeSkillLock([version |-> CURRENT_VERSION, skills |-> m]) : m \in ProducedLocks}
    /\ clock = 1
    /\ lastOp = NoOp
    /\ readRes = [async |-> NoSkills, sync |-> NoSkills]
    /\ firstAdd = [n \in LockNames |-> NoTime]
    /\ lastAdd = [n \in LockNames |-> NoTime]

InitCheck ==
    CheckStart /\ CheckIdle /\ FetchIdle /\ AddIdle /\ InstallIdle /\ RemoveIdle /\ OptionsIdle /\ RaceIdle /\ SearchIdle

NextCheck ==
    \/ CheckBegin
    \/ CheckScan
    \/ CheckTotal
    \/ \E a \in RemoteAnswers : CheckLookup(a)
    \/ CheckReport
    \/ UpdateBegin
    \/ \E a \in RemoteAnswers : UpdateScan(a)
    \/ UpdateTotal
    \/ \E status \in {0, 1}, w \in BOOLEAN, a \in AddAnswers : UpdateReinstall(status, w, a)
    \/ UpdateReport

SpecCheck == InitCheck /\ [][NextCheck]_vars


(***************************************************************************)
(* Claims about runCheck and runUpdate (checked under SpecCheck).          *)
(***************************************************************************)
LookedNames == {cLooked[i][1] : i \in 1..Len(cLooked)}

C8_Failed(answer) == answer.kind \in {"null", "threw"}

C8_CheckOutcome(n, answer) ==
    LET stored == cLock[n].skillFolderHash
        inUpdates == n \in SeqToSet(cUpdates)
        inErrors == n \in SeqToSet(cErrors)
    IN  /\ C8_Failed(answer) => inErrors /\ ~inUpdates
        /\ (~C8_Failed(answer) /\ answer.sha = stored) => ~inUpdates /\ ~inErrors
        /\ (~C8_Failed(answer) /\ answer.sha # stored) => inUpdates /\ ~inErrors

C8_UpdateOutcome(n, answer) ==
    LET stored == cLock[n].skillFolderHash
        inUpdates == n \in SeqToSet(cUpdates)
    IN  /\ C8_Failed(answer) => ~inUpdates /\ n \notin SeqToSet(cSpawned)
        /\ (~C8_Failed(answer) /\ answer.sha = stored) => ~inUpdates
        /\ (~C8_Failed(answer) /\ answer.sha # stored) => inUpdates

\* C8: every entry looked up gets exactly one outcome: remote hash equal to the stored
\* one, no update; different, update available; null or a throwing lookup, could not
\* check.  A null or failed lookup is never an update and never leads runUpdate to
\* reinstall.
C8_LookupOutcomes ==
    /\ \A i, j \in 1..Len(cLooked) : cLooked[i][1] = cLooked[j][1] => i = j
    /\ \A i \in 1..Len(cLooked) :
          /\ cCmd = "check" => C8_CheckOutcome(cLooked[i][1], cLooked[i][2])
          /\ cCmd = "update" => C8_UpdateOutcome(cLooked[i][1], cLooked[i][2])
    /\ SeqToSet(cSpawned) \subseteq SeqToSet(cUpdates)

\* runCheck ended with one entry it could not check (null) and one with an update.
C8_Witness ==
    /\ cCmd = "check" /\ cPc = "done"
    /\ \E i, j \in 1..Len(cLooked) :
          /\ cLooked[i][2].kind = "null"
          /\ cLooked[i][1] \in SeqToSet(cErrors)
          /\ cLooked[j][2].kind = "sha"
          /\ cLooked[j][2].sha # cLock[cLooked[j][1]].skillFolderHash
          /\ cLooked[j][1] \in SeqToSet(cUpdates)

RepoSourceTypes == {"github", "gitlab", "git"}

C9_Checkable(e) ==
    /\ e.sourceType \in RepoSourceTypes
    /\ e.skillFolderHash # <<>>
    /\ e.skillPath # Undefined /\ e.skillPath # <<>>

C9_CheckableNames == {n \in DOMAIN cLock : C9_Checkable(cLock[n])}

\* C9: an entry is checked if and only if its source is a repository and it has a
\* non-empty skillFolderHash and a skillPath; every other entry is counted as skipped, is
\* never looked up and is never reported as an update or an error, so that skipped plus
\* checked is the number of lock entries.
C9_CheckedIffCheckable ==
    /\ LookedNames \cup SeqToSet(cChecked) \cup SeqToSet(cUpdates) \cup SeqToSet(cErrors)
          \cup SeqToSet(cSpawned) \subseteq C9_CheckableNames
    /\ (cCmd = "check" /\ cPc \in {"lookup", "done"}) =>
          /\ SeqToSet(cChecked) = C9_CheckableNames
          /\ cSkipped = Cardinality(DOMAIN cLock \ C9_CheckableNames)
          /\ cSkipped + Len(cChecked) = Cardinality(DOMAIN cLock)
    /\ (cCmd = "check" /\ cPc = "done") => LookedNames = C9_CheckableNames
    /\ (cCmd = "update" /\ cPc \in {"reinstall", "done"}) =>
          /\ LookedNames = C9_CheckableNames
          /\ SeqToSet(cChecked) = C9_CheckableNames

\* runCheck ended on a lock with one checkable entry, one repository entry without a
\* hash and one GitHub entry with a hash but no skillPath: one lookup, two skipped.
C9_Witness ==
    /\ cCmd = "check" /\ cPc = "done"
    /\ Cardinality(DOMAIN cLock) = 3
    /\ cSkipped = 2 /\ Len(cLooked) = 1
    /\ \E n \in DOMAIN cLock :
          cLock[n].sourceType = "gitlab" /\ cLock[n].skillPath # Undefined
    /\ \E n \in DOMAIN cLock :
          /\ cLock[n].sourceType = "github"
          /\ cLock[n].skillFolderHash # <<>>
          /\ cLock[n].skillPath = Undefined

\* C12: runUpdate spawns one reinstall for every update found, in the order found; a
\* reinstall that fails does not stop the following ones; when the loop is over,
\* successCount + failCount is the number of updates found.
C12_ReinstallEachOnce ==
    /\ cCmd = "update" => IsPrefix(cSpawned, cUpdates)
    /\ (cCmd = "update" /\ cPc = "reinstall")
          => /\ cUpdates = cSpawned \o cTodo
             /\ cSuccess + cFail = Len(cSpawned)
    /\ (cCmd = "update" /\ cPc = "done")
          => /\ cSpawned = cUpdates
             /\ cSuccess + cFail = Len(cUpdates)

\* Two updates were found, the reinstall of the first failed, the second succeeded.
C12_Witness ==
    /\ cCmd = "update" /\ cPc = "done"
    /\ Len(cUpdates) = 2
    /\ cSpawned = cUpdates
    /\ cSuccess = 1 /\ cFail = 1

(***************************************************************************)
(* add.ts: the steps of an add run.                                        *)
(***************************************************************************)
Contains(q, x) == \E i \in 1..Len(q) : q[i] = x

\* skills.ts, getSkillDisplayName: the name a skill is shown under.
getSkillDisplayName(skill) == skill.name

\* A filter that lets every skill through.
filterSkills_KeepsAll(skills, inputNames) == skills

\* skills.ts, filterSkills: the skills one of the given names names, whatever the case.
filterSkills(skills, inputNames) ==
    SelectSeq(skills, LAMBDA s :
        \E i \in 1..Len(inputNames) :
            toLowerCase(inputNames[i]) \in
                {toLowerCase(s.name), toLowerCase(getSkillDisplayName(s))})

\* handleWellKnownSkills, the filter written in place.
filterWellKnown(skills, inputNames) ==
    SelectSeq(skills, LAMBDA s :
        \E i \in 1..Len(inputNames) :
            \/ toLowerCase(s.installName) = toLowerCase(inputNames[i])
            \/ toLowerCase(s.name) = toLowerCase(inputNames[i]))

\* An --all that stands for --skill '*' alone.
ApplyAll_SkillOnly(options, all) ==
    IF all THEN [options EXCEPT !.skill = <<Star>>] ELSE options

\* --all implies --skill '*' and -y.
ApplyAll(options, all) ==
    IF all THEN [options EXCEPT !.skill = <<Star>>, !.yes = TRUE] ELSE options

\* The @skill suffix of the source joins options.skill unless it is there already.
MergeSkillFilter(options, skillFilter) ==
    IF Truthy(skillFilter) /\ ~Contains(options.skill, skillFilter)
    THEN [options EXCEPT !.skill = Append(options.skill, skillFilter)]
    ELSE options

\* A selection that lets accept-all decide before the filter is looked at (used to test
\* C1's formula).
SelectSkills_YesFirst(skills, options) ==
    IF options.yes \/ Contains(options.skill, Star)
    THEN [rule |-> "wildcard", selected |-> skills]
    ELSE IF Len(options.skill) > 0
    THEN IF filterSkills(skills, options.skill) = <<>>
         THEN [rule |-> "no-match", selected |-> <<>>]
         ELSE [rule |-> "filter", selected |-> filterSkills(skills, options.skill)]
    ELSE IF Len(skills) = 1 THEN [rule |-> "single", selected |-> skills]
    ELSE [rule |-> "prompt", selected |-> <<>>]

\* runAdd: the rule that fixes selectedSkills, and the skills it selects.
SelectSkills(skills, options) ==
    IF Contains(options.skill, Star) THEN [rule |-> "wildcard", selected |-> skills]
    ELSE IF Len(options.skill) > 0
    THEN IF filterSkills(skills, options.skill) = <<>>
         THEN [rule |-> "no-match", selected |-> <<>>]
         ELSE [rule |-> "filter", selected |-> filterSkills(skills, options.skill)]
    ELSE IF Len(skills) = 1 THEN [rule |-> "single", selected |-> skills]
    ELSE IF options.yes THEN [rule |-> "yes", selected |-> skills]
    ELSE [rule |-> "prompt", selected |-> <<>>]

\* handleWellKnownSkills: the same cascade over the skills of the index.
SelectWellKnownSkills(skills, options) ==
    IF Contains(options.skill, Star) THEN [rule |-> "wildcard", selected |-> skills]
    ELSE IF Len(options.skill) > 0
    THEN IF filterWellKnown(skills, options.skill) = <<>>
         THEN [rule |-> "no-match", selected |-> <<>>]
         ELSE [rule |-> "filter", selected |-> filterWellKnown(skills, options.skill)]
    ELSE IF Len(skills) = 1 THEN [rule |-> "single", selected |-> skills]
    ELSE IF options.yes THEN [rule |-> "yes", selected |-> skills]
    ELSE [rule |-> "prompt", selected |-> <<>>]

\* An install loop that gives up at the first failed install (used to test C2's formula).
NextToInstall_StopsAtFailure(selected, results) ==
    IF Len(results) < Len(selected) /\ \A i \in 1..Len(results) : results[i].success
    THEN Len(results) + 1 ELSE 0

\* An install loop that runs over the selection from its end.
NextToInstall_LastFirst(selected, results) ==
    IF Len(results) < Len(selected) THEN Len(selected) - Len(results) ELSE 0

\* An install loop that leaves after its first turn.
NextToInstall_FirstOnly(selected, results) == IF results = <<>> /\ selected # <<>> THEN 1 ELSE 0

\* for (const skill of selectedSkills): the index of the skill installed next, 0 at the end.
NextToInstall(selected, results) ==
    IF Len(results) < Len(selected) THEN Len(results) + 1 ELSE 0

\* results.filter(...): successful and failed.
FilterResults(results, success) == SelectSeq(results, LAMBDA r : r.success = success)

\* skillFiles[skill.name]: the manifest path relative to the clone; none without a clone.
SkillFile(tempDir, skill) ==
    IF tempDir = "null" THEN Undefined
    ELSE IF skill.path = <<>> THEN <<Manifest>>
    ELSE skill.path \o <<Slash, Manifest>>

\* A lock loop that records every selected skill (used to test C3's formula).
LockWanted_Everything(skill, successful) == TRUE

\* runAdd: successfulSkillNames.has(getSkillDisplayName(skill)).
LockWanted(skill, successful) ==
    \E i \in 1..Len(successful) : successful[i].skill = getSkillDisplayName(skill)

\* handleWellKnownSkills: successfulSkillNames.has(skill.installName).
WellKnownLockWanted(skill, successful) ==
    \E i \in 1..Len(successful) : successful[i].skill = skill.installName

\* A lock update whose failure ends the run (used to test C4's formula).
AfterLockUpdate_Rethrows(threw) == IF threw THEN "abort" ELSE "next"

\* try { ... addSkillToLock ... } catch { }: the loop goes on whatever the call did.
AfterLockUpdate(threw) == "next"

(***************************************************************************)
(* Inputs of the add specification.                                        *)
(***************************************************************************)
MaxSkills == 2

\* What discovery may find in a repository or a local directory.
RepoSkillPool ==
    { Skill(NameA, NameA, <<"a">>), Skill(NameUpperA, NameUpperA, <<"A">>),
      Skill(NameB, NameB, <<"b">>) }

\* What a well-known index may list: the last one is installed under another name.
WellKnownSkillPool ==
    { Skill(NameA, NameA, <<>>), Skill(NameUpperA, NameUpperA, <<>>),
      Skill(NameC, NameB, <<>>) }

\* What a provider and the legacy fetch answer with.
ProviderSkill == Skill(NameC, NameB, <<>>)
LegacySkill == Skill(NameA, NameC, <<>>)

DistinctSeqs(S, n) ==
    { q \in UNION { [1..k -> S] : k \in 0..n } :
        \A i, j \in 1..Len(q) : i # j => q[i] # q[j] }

\* The last case: the directory searched is itself a skill.
DiscoveredByRunAdd ==
    DistinctSeqs(RepoSkillPool, MaxSkills) \cup { <<Skill(NameB, NameB, <<>>)>> }
DiscoveredWellKnown == DistinctSeqs(WellKnownSkillPool, MaxSkills)

SkillFilters == { <<>>, <<Star>>, <<NameB, Star>>, <<NameUpperA>>, <<NameC>>, << <<"z">> >> }

RawOptions == [skill : SkillFilters, yes : BOOLEAN, list : BOOLEAN]

Parsed(type, url, source, provider, skillFilter) ==
    [type |-> type, url |-> url, source |-> source, provider |-> provider,
     skillFilter |-> skillFilter]

\* The sources parseSource tells apart, with the owner/repo getOwnerRepo gives for them
\* and the provider findProvider finds.
ParsedSources ==
    { Parsed("github", "https://github.com/o/r.git", <<"o/r">>, "none", f) :
        f \in {Undefined, NameB} }
    \cup { Parsed("gitlab", "https://gitlab.com/o/r.git", <<"o/r">>, "none", Undefined) }
    \cup { Parsed(t, "https://host/o/r.git", s, "none", Undefined) :
             t \in {"git", "local"}, s \in {<<"o/r">>, Undefined} }
    \cup { Parsed("well-known", "https://site/x", <<"wellknown/site">>, "none", Undefined) }
    \cup { Parsed("direct-url", "https://host/raw/SKILL.md", <<"o/r">>, p, Undefined) :
             p \in {"github", "huggingface", "none"} }

AddLockFiles ==
    { MissingFile, JsonFile(TRUE, 2, TRUE, OldSkills), JsonFile(TRUE, 3, TRUE, OldSkills) }

DirsAtStart ==
    { [d \in DirNames |-> Absent],
      [d \in DirNames |-> IF d = <<"a">> THEN Dir("installed", <<"old">>) ELSE Absent] }

\* Before an add run: a lock file and a target directory as earlier runs left them.
AddStart ==
    /\ AddAtRest
    /\ aDirs \in DirsAtStart
    /\ aLock0 = readSkillLock(lockFile).skills

LockForAdd ==
    /\ lockFile \in AddLockFiles
    /\ clock = 1
    /\ lastOp = NoOp
    /\ readRes = [async |-> NoSkills, sync |-> NoSkills]
    /\ firstAdd = [n \in LockNames |-> NoTime]
    /\ lastAdd = [n \in LockNames |-> NoTime]

(***************************************************************************)
(* Actions of runAdd.                                                      *)
(***************************************************************************)
addRun == <<aFlow, aParsed, aOptions>>
addPicked == <<aSkills, aSelected, aAnswer, aOverwrites>>
addInstalls == <<aCalls, aResults, aSuccessful, aFailed, aDirs>>
addLocking == <<aLockAt, aLockLog, aLock0>>

\* An exit that always reports status 1.
ExitWith_AlwaysOne(code, cleaned) ==
    /\ aPc' = "done"
    /\ aExit' = 1
    /\ aTempDir' = IF cleaned /\ aTempDir = "present" THEN "removed" ELSE aTempDir

\* An exit that always reports status 0.
ExitWith_AlwaysZero(code, cleaned) ==
    /\ aPc' = "done"
    /\ aExit' = 0
    /\ aTempDir' = IF cleaned /\ aTempDir = "present" THEN "removed" ELSE aTempDir

\* process.exit(code), after cleanup(tempDir) where the code calls it first.
ExitWith(code, cleaned) ==
    /\ aPc' = "done"
    /\ aExit' = code
    /\ aTempDir' = IF cleaned /\ aTempDir = "present" THEN "removed" ELSE aTempDir

\* The answers the multiselect prompt can give over the skills it shows.
MultiselectAnswers(skills) ==
    DistinctSeqs({skills[i] : i \in 1..Len(skills)}, Len(skills)) \ {<<>>}

\* runAdd up to the discovery: the source is checked and parsed, --all applied, the
\* flow chosen, the local path checked or the repository cloned (ok = FALSE: the path
\* is missing, or parseSource or cloneRepo throws and the catch block exits).
AddBegin(hasSource, parsed, rawOptions, all, ok) ==
    LET given == [skill |-> rawOptions.skill, yes |-> rawOptions.yes,
                  list |-> rawOptions.list, all |-> all]
        options == ApplyAll(given, all)
        repo == parsed.type \notin {"direct-url", "well-known"}
        stops == ~hasSource \/ (repo /\ ~ok)
    IN  /\ aPc = "idle"
        /\ aParsed' = IF hasSource THEN parsed ELSE aParsed
        /\ aOptions' = IF ~hasSource THEN aOptions
                       ELSE IF repo /\ ok THEN MergeSkillFilter(options, parsed.skillFilter)
                       ELSE options
        /\ aFlow' = IF ~hasSource THEN "none"
                    ELSE IF parsed.type = "direct-url" THEN "remote"
                    ELSE IF parsed.type = "well-known" THEN "well-known"
                    ELSE "runAdd"
        /\ aTempDir' = IF hasSource /\ repo /\ parsed.type # "local" /\ ok
                       THEN "present" ELSE "null"
        /\ aPc' = IF stops THEN "done"
                  ELSE IF parsed.type = "direct-url" THEN "fetch" ELSE "discover"
        /\ aExit' = IF stops THEN 1 ELSE NotExited
        /\ UNCHANGED <<addPicked, addInstalls, addLocking, aReported>>
        /\ UNCHANGED <<lockVars, otherThanAdd>>

\* discoverSkills and the selection: no skill or no match exits 1, --list exits 0, each
\* after cleanup; a throw of discoverSkills reaches the catch block, which exits.
AddDiscover(skills, threw) ==
    LET sel == SelectSkills(skills, aOptions)
    IN  /\ aPc = "discover"
        /\ aFlow = "runAdd"
        /\ IF threw
           THEN ExitWith(1, FALSE) /\ UNCHANGED addPicked
           ELSE /\ aSkills' = skills
                /\ aAnswer' = aAnswer
                /\ IF skills = <<>> THEN ExitWith(1, TRUE) /\ aSelected' = aSelected /\ aOverwrites' = aOverwrites
                   ELSE IF aOptions.list THEN ExitWith(0, TRUE) /\ aSelected' = aSelected /\ aOverwrites' = aOverwrites
                   ELSE IF sel.rule = "no-match" THEN ExitWith(1, TRUE) /\ aSelected' = aSelected /\ aOverwrites' = aOverwrites
                   ELSE /\ aSelected' = sel.selected
                        /\ aOverwrites' = OverwriteChecks(sel.selected, aDirs)
                        /\ aPc' = IF sel.rule = "prompt" THEN "prompt"
                                  ELSE IF aOptions.yes THEN "install" ELSE "confirm"
                        /\ UNCHANGED <<aExit, aTempDir>>
        /\ UNCHANGED <<addRun, addInstalls, addLocking, aReported>>
        /\ UNCHANGED <<lockVars, otherThanAdd>>

\* p.multiselect answers: a cancel exits 0 after cleanup.
AddMultiselect(cancelled, answer) ==
    /\ aPc = "prompt"
    /\ aFlow = "runAdd"
    /\ IF cancelled
       THEN ExitWith(0, TRUE) /\ UNCHANGED <<aSelected, aAnswer, aOverwrites>>
       ELSE /\ aAnswer' = answer
            /\ aSelected' = answer
            /\ aOverwrites' = OverwriteChecks(answer, aDirs)
            /\ aPc' = IF aOptions.yes THEN "install" ELSE "confirm"
            /\ UNCHANGED <<aExit, aTempDir>>
    /\ UNCHANGED <<addRun, aSkills, addInstalls, addLocking, aReported>>
    /\ UNCHANGED <<lockVars, otherThanAdd>>

\* p.confirm answers: anything but a yes exits 0 after cleanup.
AddConfirm(confirmed) ==
    /\ aPc = "confirm"
    /\ aFlow = "runAdd"
    /\ IF confirmed
       THEN aPc' = "install" /\ UNCHANGED <<aExit, aTempDir>>
       ELSE ExitWith(0, TRUE)
    /\ UNCHANGED <<addRun, addPicked, addInstalls, addLocking, aReported>>
    /\ UNCHANGED <<lockVars, otherThanAdd>>

\* One turn of the install loop.
AddInstall(outcome) ==
    LET i == NextToInstall(aSelected, aResults)
        skill == aSelected[i]
        result == installSkill(skill, aDirs, outcome)
    IN  /\ aPc = "install"
        /\ aFlow = "runAdd"
        /\ i # 0
        /\ aCalls' = Append(aCalls, skill)
        /\ aResults' = Append(aResults, [skill |-> getSkillDisplayName(skill),
                                         success |-> result.success, path |-> result.path])
        /\ aDirs' = result.dirs
        /\ UNCHANGED <<addRun, addPicked, aSuccessful, aFailed, addLocking, aReported>>
        /\ UNCHANGED <<aPc, aExit, aTempDir>>
        /\ UNCHANGED <<lockVars, otherThanAdd>>

\* After the loop: the results are split, and the lock loop is entered if anything was
\* installed and the source has an owner/repo.
AddInstalled ==
    LET successful == FilterResults(aResults, TRUE)
    IN  /\ aPc = "install"
        /\ aFlow = "runAdd"
        /\ NextToInstall(aSelected, aResults) = 0
        /\ aSuccessful' = successful
        /\ aFailed' = FilterResults(aResults, FALSE)
        /\ IF Len(successful) > 0 /\ Truthy(aParsed.source)
           THEN aPc' = "lock" /\ aLockAt' = 1
           ELSE aPc' = "report" /\ aLockAt' = aLockAt
        /\ UNCHANGED <<addRun, addPicked, aCalls, aResults, aDirs, aLockLog, aLock0>>
        /\ UNCHANGED <<aReported, aExit, aTempDir>>
        /\ UNCHANGED <<lockVars, otherThanAdd>>

\* One turn of the lock loop: a skill counted successful has its hash fetched (GitHub
\* sources with a manifest path only) and its entry written; writeOk = FALSE is the
\* write throwing.
AddLock(writeOk, answer) ==
    LET skill == aSelected[aLockAt]
        wanted == LockWanted(skill, aSuccessful)
        entry == RunAddEntry(aParsed.type, aParsed.source, aParsed.url,
                             SkillFile(aTempDir, skill), answer)
        after == AfterLockUpdate(wanted /\ ~writeOk)
    IN  /\ aPc = "lock"
        /\ aFlow = "runAdd"
        /\ lockFile' = IF wanted /\ writeOk
                       THEN writeSkillLock(addSkillToLock(lockFile, skill.name, entry, clock))
                       ELSE lockFile
        /\ aLockLog' = IF wanted THEN Append(aLockLog, <<skill.name, writeOk>>) ELSE aLockLog
        /\ aLockAt' = aLockAt + 1
        /\ aPc' = IF after = "abort" THEN "done"
                  ELSE IF aLockAt = Len(aSelected) THEN "report" ELSE "lock"
        /\ aExit' = IF after = "abort" THEN 1 ELSE aExit
        /\ UNCHANGED <<addRun, addPicked, addInstalls, aLock0, aReported, aTempDir>>
        /\ UNCHANGED <<lockHistory, otherThanAdd>>

\* The report, the return and the cleanup of the finally block.
AddReport ==
    /\ aPc = "report"
    /\ aFlow = "runAdd"
    /\ aReported' = [i \in 1..Len(aSuccessful) |-> aSuccessful[i].path]
    /\ ExitWith(0, TRUE)
    /\ UNCHANGED <<addRun, addPicked, addInstalls, addLocking>>
    /\ UNCHANGED <<lockVars, otherThanAdd>>

(***************************************************************************)
(* Actions of handleWellKnownSkills.  It cleans nothing up (no clone was   *)
(* made), and a throw in it reaches the catch block of runAdd.             *)
(***************************************************************************)
\* fetchAllSkills and the selection.
WellKnownDiscover(skills, threw) ==
    LET sel == SelectWellKnownSkills(skills, aOptions)
    IN  /\ aPc = "discover"
        /\ aFlow = "well-known"
        /\ IF threw
           THEN ExitWith(1, FALSE) /\ UNCHANGED addPicked
           ELSE /\ aSkills' = skills
                /\ aAnswer' = aAnswer
                /\ IF skills = <<>> THEN ExitWith(1, FALSE) /\ aSelected' = aSelected /\ aOverwrites' = aOverwrites
                   ELSE IF aOptions.list THEN ExitWith(0, FALSE) /\ aSelected' = aSelected /\ aOverwrites' = aOverwrites
                   ELSE IF sel.rule = "no-match" THEN ExitWith(1, FALSE) /\ aSelected' = aSelected /\ aOverwrites' = aOverwrites
                   ELSE /\ aSelected' = sel.selected
                        /\ aOverwrites' = NoAdvisory(sel.selected)
                        /\ aPc' = IF sel.rule = "prompt" THEN "prompt"
                                  ELSE IF aOptions.yes THEN "install" ELSE "confirm"
                        /\ UNCHANGED <<aExit, aTempDir>>
        /\ UNCHANGED <<addRun, addInstalls, addLocking, aReported>>
        /\ UNCHANGED <<lockVars, otherThanAdd>>

WellKnownMultiselect(cancelled, answer) ==
    /\ aPc = "prompt"
    /\ aFlow = "well-known"
    /\ IF cancelled
       THEN ExitWith(0, FALSE) /\ UNCHANGED <<aSelected, aAnswer, aOverwrites>>
       ELSE /\ aAnswer' = answer
            /\ aSelected' = answer
            /\ aOverwrites' = NoAdvisory(answer)
            /\ aPc' = IF aOptions.yes THEN "install" ELSE "confirm"
            /\ UNCHANGED <<aExit, aTempDir>>
    /\ UNCHANGED <<addRun, aSkills, addInstalls, addLocking, aReported>>
    /\ UNCHANGED <<lockVars, otherThanAdd>>

WellKnownConfirm(confirmed) ==
    /\ aPc = "confirm"
    /\ aFlow = "well-known"
    /\ IF confirmed
       THEN aPc' = "install" /\ UNCHANGED <<aExit, aTempDir>>
       ELSE ExitWith(0, FALSE)
    /\ UNCHANGED <<addRun, addPicked, addInstalls, addLocking, aReported>>
    /\ UNCHANGED <<lockVars, otherThanAdd>>

WellKnownInstall(outcome) ==
    LET i == NextToInstall(aSelected, aResults)
        skill == aSelected[i]
        result == installByInstallName(skill, aDirs, outcome)
    IN  /\ aPc = "install"
        /\ aFlow = "well-known"
        /\ i # 0
        /\ aCalls' = Append(aCalls, skill)
        /\ aResults' = Append(aResults, [skill |-> skill.installName,
                                         success |-> result.success, path |-> result.path])
        /\ aDirs' = result.dirs
        /\ UNCHANGED <<addRun, addPicked, aSuccessful, aFailed, addLocking, aReported>>
        /\ UNCHANGED <<aPc, aExit, aTempDir>>
        /\ UNCHANGED <<lockVars, otherThanAdd>>

WellKnownInstalled ==
    LET successful == FilterResults(aResults, TRUE)
    IN  /\ aPc = "install"
        /\ aFlow = "well-known"
        /\ NextToInstall(aSelected, aResults) = 0
        /\ aSuccessful' = successful
        /\ aFailed' = FilterResults(aResults, FALSE)
        /\ IF Len(successful) > 0
           THEN aPc' = "lock" /\ aLockAt' = 1
           ELSE aPc' = "report" /\ aLockAt' = aLockAt
        /\ UNCHANGED <<addRun, addPicked, aCalls, aResults, aDirs, aLockLog, aLock0>>
        /\ UNCHANGED <<aReported, aExit, aTempDir>>
        /\ UNCHANGED <<lockVars, otherThanAdd>>

WellKnownLock(writeOk) ==
    LET skill == aSelected[aLockAt]
        wanted == WellKnownLockWanted(skill, aSuccessful)
        entry == WellKnownEntry(aParsed.source, aParsed.url)
        after == AfterLockUpdate(wanted /\ ~writeOk)
    IN  /\ aPc = "lock"
        /\ aFlow = "well-known"
        /\ lockFile' = IF wanted /\ writeOk
                       THEN writeSkillLock(addSkillToLock(lockFile, skill.installName, entry, clock))
                       ELSE lockFile
        /\ aLockLog' = IF wanted THEN Append(aLockLog, <<skill.installName, writeOk>>)
                       ELSE aLockLog
        /\ aLockAt' = aLockAt + 1
        /\ aPc' = IF after = "abort" THEN "done"
                  ELSE IF aLockAt = Len(aSelected) THEN "report" ELSE "lock"
        /\ aExit' = IF after = "abort" THEN 1 ELSE aExit
        /\ UNCHANGED <<addRun, addPicked, addInstalls, aLock0, aReported, aTempDir>>
        /\ UNCHANGED <<lockHistory, otherThanAdd>>

WellKnownReport ==
    /\ aPc = "report"
    /\ aFlow = "well-known"
    /\ aReported' = [i \in 1..Len(aSuccessful) |-> aSuccessful[i].path]
    /\ ExitWith(0, TRUE)
    /\ UNCHANGED <<addRun, addPicked, addInstalls, addLocking>>
    /\ UNCHANGED <<lockVars, otherThanAdd>>

(***************************************************************************)
(* Actions of handleRemoteSkill and handleDirectUrlSkillLegacy, which the  *)
(* first hands over to when no provider takes the URL.                     *)
(***************************************************************************)
RemoteFlows == {"remote", "legacy"}

\* findProvider, then the fetch of the one skill: none found exits 1, --list exits 0.
RemoteFetch(found) ==
    LET legacy == aParsed.provider = "none"
        skill == IF legacy THEN LegacySkill ELSE ProviderSkill
    IN  /\ aPc = "fetch"
        /\ aFlow = "remote"
        /\ aFlow' = IF legacy THEN "legacy" ELSE "remote"
        /\ IF ~found THEN ExitWith(1, FALSE) /\ UNCHANGED <<aSkills, aSelected, aOverwrites>>
           ELSE IF aOptions.list
           THEN ExitWith(0, FALSE) /\ aSkills' = <<skill>> /\ aSelected' = aSelected /\ aOverwrites' = aOverwrites
           ELSE /\ aSkills' = <<skill>>
                /\ aSelected' = <<skill>>
                /\ aOverwrites' = <<isSkillInstalled(skill.installName, aDirs)>>
                /\ aPc' = IF aOptions.yes THEN "install" ELSE "confirm"
                /\ UNCHANGED <<aExit, aTempDir>>
        /\ UNCHANGED <<aParsed, aOptions, aAnswer, addInstalls, addLocking, aReported>>
        /\ UNCHANGED <<lockVars, otherThanAdd>>

RemoteConfirm(confirmed) ==
    /\ aPc = "confirm"
    /\ aFlow \in RemoteFlows
    /\ IF confirmed
       THEN aPc' = "install" /\ UNCHANGED <<aExit, aTempDir>>
       ELSE ExitWith(0, FALSE)
    /\ UNCHANGED <<addRun, addPicked, addInstalls, addLocking, aReported>>
    /\ UNCHANGED <<lockVars, otherThanAdd>>

\* installRemoteSkill; a success is reported at once, before the lock is touched.
RemoteInstall(outcome) ==
    LET skill == aSelected[1]
        result == installByInstallName(skill, aDirs, outcome)
        results == <<[skill |-> skill.installName, success |-> result.success,
                      path |-> result.path]>>
    IN  /\ aPc = "install"
        /\ aFlow \in RemoteFlows
        /\ aCalls' = Append(aCalls, skill)
        /\ aResults' = results
        /\ aSuccessful' = FilterResults(results, TRUE)
        /\ aFailed' = FilterResults(results, FALSE)
        /\ aDirs' = result.dirs
        /\ aReported' = IF result.success THEN <<result.path>> ELSE aReported
        /\ aPc' = IF result.success THEN "lock" ELSE "report"
        /\ aLockAt' = IF result.success THEN 1 ELSE aLockAt
        /\ UNCHANGED <<addRun, addPicked, aLockLog, aLock0, aExit, aTempDir>>
        /\ UNCHANGED <<lockVars, otherThanAdd>>

\* The lock update of the installed skill: the hash is fetched for the github provider.
RemoteLock(writeOk, answer) ==
    LET skill == aSelected[1]
        entry == IF aFlow = "legacy" THEN LegacyEntry(skill.installName, aParsed.url)
                 ELSE RemoteSkillEntry(aParsed.provider, aParsed.source, aParsed.url, answer)
        after == AfterLockUpdate(~writeOk)
    IN  /\ aPc = "lock"
        /\ aFlow \in RemoteFlows
        /\ lockFile' = IF writeOk
                       THEN writeSkillLock(addSkillToLock(lockFile, skill.installName, entry, clock))
                       ELSE lockFile
        /\ aLockLog' = Append(aLockLog, <<skill.installName, writeOk>>)
        /\ aLockAt' = aLockAt + 1
        /\ aPc' = IF after = "abort" THEN "done" ELSE "report"
        /\ aExit' = IF after = "abort" THEN 1 ELSE aExit
        /\ UNCHANGED <<addRun, addPicked, addInstalls, aLock0, aReported, aTempDir>>
        /\ UNCHANGED <<lockHistory, otherThanAdd>>

\* The closing message and the return.
RemoteReport ==
    /\ aPc = "report"
    /\ aFlow \in RemoteFlows
    /\ ExitWith(0, TRUE)
    /\ UNCHANGED <<addRun, addPicked, addInstalls, addLocking, aReported>>
    /\ UNCHANGED <<lockVars, otherThanAdd>>

InitAdd ==
    LockForAdd /\ AddStart /\ FetchIdle /\ CheckIdle /\ InstallIdle /\ RemoveIdle /\ OptionsIdle /\ RaceIdle /\ SearchIdle

\* What fetchSkillFolderHash may answer at the lock step the flow is at: it is asked by
\* the github provider, and by runAdd for a GitHub source and a skill with a manifest path.
HashAnswers ==
    IF \/ aFlow = "remote" /\ aParsed.provider = "github"
       \/ /\ aFlow = "runAdd"
          /\ aParsed.type = "github"
          /\ aLockAt \in 1..Len(aSelected)
          /\ LockWanted(aSelected[aLockAt], aSuccessful)
          /\ Truthy(SkillFile(aTempDir, aSelected[aLockAt]))
    THEN AddAnswers ELSE {NullAnswer}

NextAdd ==
    \/ /\ aPc = "idle"
       /\ \E hasSource \in BOOLEAN, parsed \in ParsedSources, rawOptions \in RawOptions,
             all \in BOOLEAN, ok \in BOOLEAN :
             AddBegin(hasSource, parsed, rawOptions, all, ok)
    \/ /\ aPc = "discover"
       /\ \E skills \in DiscoveredByRunAdd, threw \in BOOLEAN : AddDiscover(skills, threw)
    \/ /\ aPc = "prompt"
       /\ \E cancelled \in BOOLEAN, answer \in MultiselectAnswers(aSkills) :
             AddMultiselect(cancelled, answer)
    \/ \E confirmed \in BOOLEAN : AddConfirm(confirmed)
    \/ \E outcome \in InstallOutcomes : AddInstall(outcome)
    \/ AddInstalled
    \/ /\ aPc = "lock"
       /\ \E writeOk \in BOOLEAN, answer \in HashAnswers : AddLock(writeOk, answer)
    \/ AddReport
    \/ /\ aPc = "discover"
       /\ \E skills \in DiscoveredWellKnown, threw \in BOOLEAN :
             WellKnownDiscover(skills, threw)
    \/ /\ aPc = "prompt"
       /\ \E cancelled \in BOOLEAN, answer \in MultiselectAnswers(aSkills) :
             WellKnownMultiselect(cancelled, answer)
    \/ \E confirmed \in BOOLEAN : WellKnownConfirm(confirmed)
    \/ \E outcome \in InstallOutcomes : WellKnownInstall(outcome)
    \/ WellKnownInstalled
    \/ \E writeOk \in BOOLEAN : WellKnownLock(writeOk)
    \/ WellKnownReport
    \/ \E found \in BOOLEAN : RemoteFetch(found)
    \/ \E confirmed \in BOOLEAN : RemoteConfirm(confirmed)
    \/ \E outcome \in InstallOutcomes : RemoteInstall(outcome)
    \/ /\ aPc = "lock"
       /\ \E writeOk \in BOOLEAN, answer \in HashAnswers : RemoteLock(writeOk, answer)
    \/ RemoteReport

SpecAdd == InitAdd /\ [][NextAdd]_vars

(***************************************************************************)
(* Claims about the add flows.                                             *)
(***************************************************************************)
SelectingFlows == {"runAdd", "well-known"}

\* The selection has been made: the run is past the selection with skills chosen.
SelectionMade ==
    \/ aPc \in {"confirm", "install", "lock", "report"}
    \/ aPc = "done" /\ aSelected # <<>>

\* A discovered skill matches the filter: one of the filter's names is its name (or, in
\* the well-known flow, its install name), letter case aside.
C1_Matches(skill) ==
    \E i \in 1..Len(aOptions.skill) :
        \/ toLowerCase(aOptions.skill[i]) = toLowerCase(skill.name)
        \/ aFlow = "well-known"
           /\ toLowerCase(aOptions.skill[i]) = toLowerCase(skill.installName)

C1_NoMatch ==
    /\ aOptions.skill # <<>>
    /\ ~Contains(aOptions.skill, Star)
    /\ \A i \in 1..Len(aSkills) : ~C1_Matches(aSkills[i])

C1_Expected ==
    IF Contains(aOptions.skill, Star) THEN aSkills
    ELSE IF aOptions.skill # <<>> THEN SelectSeq(aSkills, C1_Matches)
    ELSE IF Len(aSkills) = 1 THEN aSkills
    ELSE IF aOptions.yes THEN aSkills
    ELSE aAnswer

\* C1: in runAdd and handleWellKnownSkills the selected skills are fixed by the first
\* rule that applies: a '*' in the filter selects every discovered skill; a non-empty
\* filter selects exactly the discovered skills matching it, and when none matches the
\* run exits non-zero with no installer call; a single discovered skill is selected;
\* accept-all selects every skill; otherwise the multiselect answer is the selection.
C1_SelectionPrecedence ==
    (aFlow \in SelectingFlows /\ aSkills # <<>> /\ ~aOptions.list) =>
        /\ SelectionMade => aSelected = C1_Expected /\ ~C1_NoMatch
        /\ C1_NoMatch => aPc = "done" /\ aExit > 0 /\ aCalls = <<>> /\ aSelected = <<>>
        /\ aPc = "prompt" =>
              aOptions.skill = <<>> /\ Len(aSkills) > 1 /\ ~aOptions.yes

\* A filter decided although accept-all was on and several skills were discovered.
C1_Witness ==
    /\ aFlow = "runAdd"
    /\ aPc = "install"
    /\ aOptions.yes
    /\ aOptions.skill = <<NameUpperA>>
    /\ Len(aSkills) = 2
    /\ Len(aSelected) = 1

\* The install loop is over and the results are split.
C2_PastInstall ==
    \/ aPc \in {"lock", "report"}
    \/ aPc = "done" /\ aCalls # <<>>

C2_InList(result, list) == \E j \in 1..Len(list) : list[j] = result

\* C2: the installer is called once for every selected skill, in selection order, a
\* failed install does not keep the later skills from being tried, and every selected
\* skill's result is in exactly one of successful and failed.
C2_EverySelectedInstalledOnce ==
    /\ IsPrefix(aCalls, aSelected)
    /\ Len(aResults) = Len(aCalls)
    /\ C2_PastInstall =>
          /\ aCalls = aSelected
          /\ Len(aSuccessful) + Len(aFailed) = Len(aSelected)
          /\ \A i \in 1..Len(aSelected) :
                /\ C2_InList(aResults[i], aSuccessful) = aResults[i].success
                /\ C2_InList(aResults[i], aFailed) = ~aResults[i].success

\* The first of two selected skills failed and the second was installed all the same.
C2_Witness ==
    /\ aPc = "report"
    /\ Len(aSelected) = 2
    /\ ~aResults[1].success
    /\ aResults[2].success
    /\ Len(aFailed) = 1
    /\ Len(aSuccessful) = 1

\* The name a flow records a skill under in the lock store.
C3_LockKey(skill) == IF aFlow = "runAdd" THEN skill.name ELSE skill.installName

C3_LockKeys == {NameA, NameUpperA, NameB, NameC}

C3_EntryOf(skills, n) == IF n \in DOMAIN skills THEN <<skills[n]>> ELSE <<>>

\* A skill whose install failed has the lock entry the run found, or none as before.
C3_FailedKeepEntry ==
    \A i \in 1..Len(aResults) :
        ~aResults[i].success =>
            C3_EntryOf(Tracked, C3_LockKey(aSelected[i])) = C3_EntryOf(aLock0, C3_LockKey(aSelected[i]))

\* A step that creates or changes an entry does so for a skill installed in this run.
C3_LockStep ==
    \A n \in C3_LockKeys :
        C3_EntryOf(TrackedNext, n) # C3_EntryOf(Tracked, n) =>
            \E i \in 1..Len(aResults) : C3_LockKey(aSelected[i]) = n /\ aResults[i].success

\* C3: an add run creates or overwrites lock entries only for skills it installed
\* successfully; a selected skill whose install failed gains no entry and keeps the
\* entry it had.
C3_LockOnlyForInstalled == [](C3_FailedKeepEntry) /\ [][C3_LockStep]_vars

\* One skill failed, it had an entry before the run, and another skill's entry was written.
C3_Witness ==
    /\ aPc = "report"
    /\ Len(aFailed) = 1
    /\ aFailed[1].skill \in DOMAIN aLock0
    /\ Len(aLockLog) = 1
    /\ aLockLog[1][2]

C4_WriteFailed == \E i \in 1..Len(aLockLog) : ~aLockLog[i][2]

C4_Inv ==
    \A i \in 1..Len(aLockLog) :
        ~aLockLog[i][2] =>
            /\ aExit \in {NotExited, 0}
            /\ aPc \in {"lock", "report", "done"}
            /\ aPc \in {"report", "done"} =>
                  [j \in 1..Len(aLockLog) |-> aLockLog[j][1]]
                      = [j \in 1..Len(aSuccessful) |-> aSuccessful[j].skill]
            /\ aPc = "done" =>
                  /\ aExit = 0
                  /\ \E j \in 1..Len(aReported) : aReported[j] = sanitizeName(aLockLog[i][1])

\* The lock steps, and every step after a failed lock write, leave the installed files.
C4_Step == (aPc = "lock" \/ C4_WriteFailed) => aDirs' = aDirs

\* C4: when the lock write fails for an installed skill, the run still reports the skill
\* as installed, leaves the installed files as they are, still attempts the lock update
\* of the other installed skills, and ends with exit status 0.
C4_LockFailureSwallowed == [](C4_Inv) /\ [][C4_Step]_vars

\* The first lock write failed, the second was made, and the run ended with status 0.
C4_Witness ==
    /\ aPc = "done"
    /\ aExit = 0
    /\ Len(aLockLog) = 2
    /\ ~aLockLog[1][2]
    /\ aLockLog[2][2]
    /\ Len(aReported) = 2

\* C13: an add run that cloned into a temporary directory has deleted it when the
\* process ends, on every exit path, a throw after the clone included.
C13_TempDirRemovedOnExit == aPc = "done" => aTempDir # "present"

\* The lock update of the k-th installed skill is due: its install succeeded and the
\* flow updates the lock store for this source.
C14_LockDue(k) ==
    /\ aResults[k].success
    /\ aFlow = "runAdd" => Truthy(aParsed.source)

\* The names whose lock update has been made (or has failed and been swallowed).
C14_LockedNames == {aLockLog[j][1] : j \in 1..Len(aLockLog)}

\* C14 as stated: when the install of a selected skill begins, the copy and the lock
\* update of the skill before it are both complete.
C14_Original ==
    aFlow \in SelectingFlows =>
        \A i \in 2..Len(aCalls) :
            /\ Len(aResults) >= i - 1
            /\ C14_LockDue(i - 1) => aResults[i - 1].skill \in C14_LockedNames

\* C14, amended: the selected skills are installed one after another in selection
\* order, each install complete before the next begins; the lock updates are a second
\* pass, begun only after the install of every selected skill, over the skills whose
\* install succeeded, in the order of the selection.
C14_InstallsThenLocks ==
    aFlow \in SelectingFlows =>
        /\ IsPrefix(aCalls, aSelected)
        /\ Len(aResults) = Len(aCalls)
        /\ (aPc = "lock" \/ aLockLog # <<>>) => aCalls = aSelected
        /\ aLockLog # <<>> =>
              IsPrefix([j \in 1..Len(aLockLog) |-> aLockLog[j][1]],
                       [j \in 1..Len(aSuccessful) |-> aSuccessful[j].skill])

\* Two skills were installed, and only then was the lock update of the first made.
C14_Witness ==
    /\ aFlow = "runAdd"
    /\ aPc = "lock"
    /\ Len(aSelected) = 2
    /\ Len(aResults) = 2 /\ aResults[1].success /\ aResults[2].success
    /\ Len(aLockLog) = 1
    /\ aLockLog[1][1] = aResults[1].skill

\* The i-th selected skill has been installed by this run.
C15_Installed(i) == i <= Len(aResults) /\ aResults[i].success

\* The directory the install of a selected skill writes.
C15_DirOf(skill) ==
    sanitizeName(IF aFlow = "runAdd" THEN skill.name ELSE skill.installName)

\* C15 as stated: the skills installed by the run are a prefix of the selection.
C15_Original ==
    aFlow \in SelectingFlows =>
        \A i, j \in 1..Len(aSelected) : (i < j /\ C15_Installed(j)) => C15_Installed(i)

C15_Inv ==
    aFlow \in SelectingFlows =>
        /\ IsPrefix(aCalls, aSelected)
        /\ Len(aResults) = Len(aCalls)
        /\ \A i \in 1..Len(aSelected) : C15_Installed(i) => aCalls[i] = aSelected[i]

\* A step that changes the target directory is the install of the first selected skill
\* not yet attempted, and changes that skill's directory only.
C15_Step ==
    (aFlow \in SelectingFlows /\ aDirs' # aDirs) =>
        /\ Len(aCalls) < Len(aSelected)
        /\ aCalls' = Append(aCalls, aSelected[Len(aCalls) + 1])
        /\ \A d \in DirNames \ {C15_DirOf(aSelected[Len(aCalls) + 1])} : aDirs'[d] = aDirs[d]

\* C15, amended: at whatever point an add run stops, the skills whose install has been
\* attempted are a prefix of the selection, and only their directories have been
\* written; within that prefix a skill whose install failed may be followed by skills
\* that are installed.
C15_AttemptedPrefix == [](C15_Inv) /\ [][C15_Step]_vars

\* The install of the first selected skill failed and the second skill is installed.
C15_Witness ==
    /\ aFlow = "runAdd"
    /\ Len(aSelected) = 2 /\ Len(aResults) = 2
    /\ ~aResults[1].success /\ aResults[2].success
    /\ aDirs[C15_DirOf(aSelected[1])].state # "installed"
    /\ aDirs[C15_DirOf(aSelected[2])].state = "installed"

\* The run has called no installer and written nothing to the lock store.
C16_NothingDone ==
    /\ aCalls = <<>>
    /\ aDirs \in DirsAtStart
    /\ aLockLog = <<>>
    /\ readSkillLock(lockFile).skills = aLock0

\* The run is over and was fatal: there was no source argument; or it got no skill (the
\* local path is missing, the source was not parsed or cloned, discovery or the
\* provider returned nothing); or, not being asked to list, its filter matched nothing.
C16_Fatal ==
    /\ aPc = "done"
    /\ \/ aFlow = "none"
       \/ aSkills = <<>>
       \/ aFlow \in SelectingFlows /\ ~aOptions.list /\ C1_NoMatch

\* The run is over and was asked to list the skills it found.
C16_ListOnly == aPc = "done" /\ aFlow # "none" /\ aSkills # <<>> /\ aOptions.list

C16_Inv ==
    /\ C16_Fatal => aExit = 1 /\ C16_NothingDone
    /\ C16_ListOnly => aExit = 0 /\ C16_NothingDone

\* A prompt that ends the run is a cancelled one: the status is 0, nothing was done.
C16_Step ==
    (aPc \in {"prompt", "confirm"} /\ aPc' = "done") => aExit' = 0 /\ C16_NothingDone'

\* C16: an add run ends with status 1, no skill installed and no lock entry written,
\* when it has no source, when the local path is missing, when the source is not
\* parsed or cloned, when no skill is discovered, and when the filter matches nothing;
\* it ends with status 0, again with nothing installed, when it lists and when a
\* prompt is cancelled.  The cases are taken in the order the code tests them.
C16_ExitStatuses == [](C16_Inv) /\ [][C16_Step]_vars

\* A run whose filter matched none of the skills discovered has ended with status 1.
C16_Witness ==
    /\ aPc = "done"
    /\ aFlow = "runAdd"
    /\ aSkills # <<>>
    /\ ~aOptions.list
    /\ C1_NoMatch
    /\ aExit = 1
    /\ C16_NothingDone

(***************************************************************************)
(* Actions of the installer functions (installer.ts).  Each is one call,   *)
(* from the sanitized name to the InstallResult.  What the file system     *)
(* does is chosen inside: `left' is what rm left behind in the install     *)
(* directory (nothing unless it failed), mkdirOk whether mkdir returned,   *)
(* `written' the files that were written before a write threw (all of      *)
(* them when none threw).                                                  *)
(***************************************************************************)
\* A name of n letters a.
LongA(n) == [i \in 1..n |-> "a"]

\* Names of skills: short ones over the characters sanitizeName tells apart, and ones
\* that reach the cut.
InstallNames ==
    LET chars == {"a", "A", "-", ".", "/", "_"}
        short == {<<>>} \cup {<<x>> : x \in chars} \cup {<<x, y>> : x, y \in chars}
    IN  short \cup { LongA(NameCut - 2) \o suffix :
                        suffix \in {<<"b">>, <<"-", "b">>, <<"b", ".", "b">>, <<"b", "b", "-", "b">>} }

\* Entries of a skill's folder, as readdir lists them.
FolderFiles ==
    { {<<Manifest>>}, {<<Manifest>>, <<"f">>},
      {<<Manifest>>, <<"README.md">>, <<"metadata.json">>, <<"_", "x">>} }

\* Keys of skill.files, as the well-known index gives them.
WellKnownFiles ==
    { {<<Manifest>>}, {<<Manifest>>, <<"refs", Slash, "r">>},
      {<<Manifest>>, <<".", ".", Slash, "x">>} }

\* The install directory before the call.
DirsBefore ==
    { InstallDir(FALSE, {}), InstallDir(TRUE, {<<"old">>}),
      InstallDir(TRUE, {<<Manifest>>, <<"old">>}) }

\* What a call leaves and returns once past the path check: the directory is cleaned
\* and made, the files are written, and any throw gives success: false.
Installed(skillName, dir, targets, left, mkdirOk, written) ==
    LET made == cleanAndCreateDirectory(dir, left)
    IN  IF ~mkdirOk
        THEN [dir |-> InstallDir(left # {}, left),
              result |-> [success |-> FALSE, path |-> skillName]]
        ELSE [dir |-> InstallDir(TRUE, made.files \cup written),
              result |-> [success |-> written = targets, path |-> skillName]]

\* The call of one installer function, given the files it is to write.
InstallCall(fn, name, files, targets) ==
    LET skillName == sanitizeName(name)
    IN  /\ iPc = "idle"
        /\ iPc' = "done"
        /\ iFn' = fn
        /\ iName' = name
        /\ iFiles' = files
        /\ iSkipped' = files \ targets
        /\ IF ~isPathSafe(skillName)
           THEN iDir' = iDir /\ iResult' = [success |-> FALSE, path |-> skillName]
           ELSE \E left \in SUBSET iDir.files, mkdirOk \in BOOLEAN, written \in SUBSET targets :
                   LET after == Installed(skillName, iDir, targets, left, mkdirOk, written)
                   IN  iDir' = after.dir /\ iResult' = after.result
        /\ UNCHANGED otherThanInstall

\* installSkill, lines 86-117.
InstallSkillCall(name, files) == InstallCall("installSkill", name, files, copyDirectory(files))

\* installRemoteSkill, lines 122-153: the one file is SKILL.md.
InstallRemoteCall(name) == InstallCall("installRemoteSkill", name, {<<Manifest>>}, {<<Manifest>>})

\* installWellKnownSkill, lines 158-201.
InstallWellKnownCall(name, files) ==
    InstallCall("installWellKnownSkill", name, files, WrittenWellKnown(files))

InstallStart ==
    /\ iPc = "idle"
    /\ iFn = "none"
    /\ iName = <<>>
    /\ iFiles = {}
    /\ iDir \in DirsBefore
    /\ iSkipped = {}
    /\ iResult = NoInstall

InitInstall ==
    InstallStart /\ LockIdle /\ FetchIdle /\ CheckIdle /\ AddIdle /\ RemoveIdle /\ OptionsIdle /\ RaceIdle /\ SearchIdle

NextInstall ==
    \/ \E name \in InstallNames, files \in FolderFiles : InstallSkillCall(name, files)
    \/ \E name \in InstallNames : InstallRemoteCall(name)
    \/ \E name \in InstallNames, files \in WellKnownFiles : InstallWellKnownCall(name, files)

SpecInstall == InitInstall /\ [][NextInstall]_vars

(***************************************************************************)
(* Claims about the installer functions (checked under SpecInstall).       *)
(***************************************************************************)
\* The paths of the call that leave their base: the install path under the target
\* directory, and for a well-known skill each file path under the install directory.
C17_InstallPathUnsafe == ~isPathSafe(sanitizeName(iName))
C17_UnsafeFiles ==
    IF iFn = "installWellKnownSkill" THEN {f \in iFiles : ~isPathSafe(f)} ELSE {}

\* C17: when the install path or a file path of a skill resolves outside its base
\* directory, the install is reported as failed, and no such path is passed over
\* while the skill is reported as installed.
C17_UnsafePathFails ==
    (iPc = "done" /\ (C17_InstallPathUnsafe \/ C17_UnsafeFiles # {}))
        => ~iResult.success

\* C18: whatever the name, sanitizeName gives a non-empty name of at most 255
\* characters, all of them among a-z, 0-9, '.', '_' and '-', that neither begins nor
\* ends with '-' or '.'; the placeholder when nothing remains; and the install
\* directory is the target directory joined with that name.
C18_SanitizedName ==
    iPc = "done" =>
        LET n == iResult.path
        IN  /\ n = sanitizeName(iName)
            /\ n # <<>>
            /\ Len(n) <= NameCut
            /\ \/ n = <<"unnamed-skill">>
               \/ \A i \in 1..Len(n) : n[i] \in {"a", "b", "c", "z", "0", ".", "_", "-"}
            /\ n[1] \notin {"-", "."}
            /\ n[Len(n)] \notin {"-", "."}
            /\ (\A i \in 1..Len(iName) : iName[i] \in {"-", ".", "/"}) => n = <<"unnamed-skill">>

\* C19: after a successful install the directory holds exactly the files of the
\* version installed; whatever else was in it before is gone.
C19_ExactlyNewFiles ==
    (iPc = "done" /\ iResult.success) => (iDir.exists /\ iDir.files = iFiles \ iSkipped)

(***************************************************************************)
(* removeCommand (remove.ts).  The directories of the target directory are *)
(* known by their names; the file system tells names apart by case.        *)
(***************************************************************************)
\* Array.prototype.sort over the directory names used here: code-unit order.
SortedDirs(dirs) == SelectSeq(<<NameUpperA, NameA, NameB>>, LAMBDA d : d \in dirs)

\* A selection that takes the names as given, installed or not.
SelectToRemove_NamesAsGiven(installedSkills, skillNames, all) ==
    IF all THEN installedSkills ELSE skillNames

\* Lines 234-240: with --all every installed skill; with names, the installed skills
\* one of the names equals, letter case aside.
SelectToRemove(installedSkills, skillNames, all) ==
    IF all THEN installedSkills
    ELSE SelectSeq(installedSkills, LAMBDA d :
            \E i \in 1..Len(skillNames) : toLowerCase(skillNames[i]) = toLowerCase(d))

\* The names removeCommand may be called with, and the target directories it may find.
RemoveArgs == DistinctSeqs({NameA, NameUpperA, NameB, NameC}, 2)
RemoveDirSets == SUBSET {NameUpperA, NameA, NameB}
AddedNames == {NameA, NameUpperA, NameB}

\* listInstalledSkills (installer.ts 248-286): the directories of the target directory
\* whose SKILL.md exists and is parsed to a skill by parseSkillMd.
listInstalledSkills(dirs, manifests) == {d \in dirs : d \in manifests}

\* The command returns, or calls process.exit(0): the process ends with status 0.
RemoveEnds(msg) ==
    /\ rPc' = "done"
    /\ rMsg' = msg
    /\ rExit' = 0

\* Lines 203-244: the scan (scanOk = FALSE: readdir throws, which leaves the list
\* empty) and the selection by --all or by names.
RemoveBegin(skillNames, all, scanOk) ==
    LET installedSkills == IF scanOk THEN SortedDirs(rDirs) ELSE <<>>
        selected == SelectToRemove(installedSkills, skillNames, all)
    IN  /\ rPc = "idle"
        /\ rNames' = skillNames
        /\ rAll' = all
        /\ rInstalled' = installedSkills
        /\ IF installedSkills = <<>>
           THEN RemoveEnds("no-skills") /\ rSelected' = rSelected
           ELSE IF ~all /\ skillNames = <<>>
           THEN rPc' = "prompt" /\ UNCHANGED <<rSelected, rMsg, rExit>>
           ELSE IF selected = <<>>
           THEN RemoveEnds("no-match") /\ rSelected' = rSelected
           ELSE rPc' = "removing" /\ rSelected' = selected /\ UNCHANGED <<rMsg, rExit>>
        /\ UNCHANGED <<rDirs, rDirs0, rLock0, rAdded, rManifests, rResults>>
        /\ UNCHANGED <<lockVars, otherThanRemove>>

\* Lines 246-262: p.multiselect over the installed skills; a cancel exits 0.
RemoveMultiselect(cancelled, answer) ==
    /\ rPc = "prompt"
    /\ IF cancelled
       THEN RemoveEnds("cancelled") /\ rSelected' = rSelected
       ELSE rPc' = "removing" /\ rSelected' = answer /\ UNCHANGED <<rMsg, rExit>>
    /\ UNCHANGED <<rNames, rAll, rDirs, rDirs0, rLock0, rAdded, rManifests, rInstalled, rResults>>
    /\ UNCHANGED <<lockVars, otherThanRemove>>

\* Lines 275-299, one skill: the directory getInstallPath names is removed, then the
\* lock entry of the skill; rmOk = FALSE and writeOk = FALSE are rm and the lock write
\* throwing, which the catch turns into a failed result.
RemoveOne(rmOk, writeOk) ==
    LET skillName == rSelected[Len(rResults) + 1]
        sanitized == sanitizeName(skillName)
        removed == isPathSafe(sanitized) /\ rmOk
        fromLock == removeSkillFromLock(lockFile, skillName)
        written == removed /\ fromLock.found /\ writeOk
    IN  /\ rPc = "removing"
        /\ Len(rResults) < Len(rSelected)
        /\ rDirs' = IF removed THEN rDirs \ {sanitized} ELSE rDirs
        /\ lockFile' = IF written THEN writeSkillLock(fromLock.lock) ELSE lockFile
        /\ rResults' = Append(rResults,
                              [skill |-> skillName,
                               success |-> removed /\ (fromLock.found => writeOk)])
        /\ UNCHANGED <<rPc, rNames, rAll, rDirs0, rLock0, rAdded, rManifests, rInstalled, rSelected,
                       rMsg, rExit>>
        /\ UNCHANGED <<lockHistory, otherThanRemove>>

\* Lines 301-344: the report, and the return.
RemoveReport ==
    /\ rPc = "removing"
    /\ Len(rResults) = Len(rSelected)
    /\ RemoveEnds("done")
    /\ UNCHANGED <<rNames, rAll, rDirs, rDirs0, rLock0, rAdded, rManifests, rInstalled, rSelected,
                   rResults>>
    /\ UNCHANGED <<lockVars, otherThanRemove>>

\* An add run that went well, seen from the target directory and the lock store: for
\* the skill it installed, installSkill (installer.ts 86-103) made the directory
\* sanitizeName(skill.name), and runAdd (add.ts 811-817) stored the lock entry under
\* skill.name.  The directory holds the skill's SKILL.md, which discovery found valid.
AddedBefore(skillName, given) ==
    /\ rPc = "idle"
    /\ skillName \notin rAdded
    /\ Cardinality(rAdded) < MaxSkills
    /\ rAdded' = rAdded \cup {skillName}
    /\ rDirs' = rDirs \cup {sanitizeName(skillName)}
    /\ rDirs0' = rDirs'
    /\ rManifests' = rManifests \cup {sanitizeName(skillName)}
    /\ lockFile' = writeSkillLock(addSkillToLock(lockFile, skillName, given, clock))
    /\ rLock0' = readSkillLock(lockFile').skills
    /\ UNCHANGED <<rPc, rNames, rAll, rInstalled, rSelected, rResults, rMsg, rExit>>
    /\ UNCHANGED <<lockHistory, otherThanRemove>>

RemoveStart ==
    /\ RemoveAtRest
    /\ rAdded = {}
    /\ rDirs \in RemoveDirSets
    /\ rDirs0 = rDirs
    /\ rManifests \in SUBSET rDirs
    /\ rLock0 = readSkillLock(lockFile).skills

InitRemove ==
    LockForAdd /\ RemoveStart /\ FetchIdle /\ CheckIdle /\ AddIdle /\ InstallIdle /\ OptionsIdle /\ RaceIdle /\ SearchIdle

NextRemove ==
    \/ \E skillName \in AddedNames : AddedBefore(skillName, GivenGithub)
    \/ \E skillNames \in RemoveArgs, all \in BOOLEAN, scanOk \in BOOLEAN :
          RemoveBegin(skillNames, all, scanOk)
    \/ \E cancelled \in BOOLEAN, answer \in MultiselectAnswers(rInstalled) :
          RemoveMultiselect(cancelled, answer)
    \/ \E rmOk \in BOOLEAN, writeOk \in BOOLEAN : RemoveOne(rmOk, writeOk)
    \/ RemoveReport

SpecRemove == InitRemove /\ [][NextRemove]_vars

(***************************************************************************)
(* Claims about removeCommand (checked under SpecRemove).                  *)
(***************************************************************************)
\* The command was called with names, without --all, and no directory of the target
\* directory has one of the names, letter case aside.
C20_NoNameMatches ==
    /\ rPc # "idle"
    /\ ~rAll
    /\ rNames # <<>>
    /\ \A d \in rDirs0 : \A i \in 1..Len(rNames) : toLowerCase(rNames[i]) # toLowerCase(d)

\* C20: removeCommand called with names none of which matches a directory deletes
\* nothing, changes no lock entry, reports that no skill matches (that no skill was
\* found when the scan of the target directory found no directory) and ends with
\* status 0.
C20_NoMatchIsNoOp ==
    C20_NoNameMatches =>
        /\ rPc = "done"
        /\ rExit = 0
        /\ rMsg = IF rInstalled = <<>> THEN "no-skills" ELSE "no-match"
        /\ rDirs0 = {} => rInstalled = <<>>
        /\ rDirs = rDirs0
        /\ readSkillLock(lockFile).skills = rLock0
        /\ rResults = <<>>

\* Called with a name the lock store has an entry for but no directory has, the
\* command has said that no skill matches, and the entry is still there.
C20_Witness ==
    /\ C20_NoNameMatches
    /\ rDirs0 # {}
    /\ rMsg = "no-match"
    /\ rExit = 0
    /\ \E i \in 1..Len(rNames) : rNames[i] \in DOMAIN rLock0
    /\ readSkillLock(lockFile).skills = rLock0

\* The directories the command has deleted, and those the names given (or --all) name.
C21_Deleted == rDirs0 \ rDirs
C21_Named ==
    IF rAll THEN rDirs0
    ELSE {d \in rDirs0 : \E i \in 1..Len(rNames) : toLowerCase(rNames[i]) = toLowerCase(d)}

\* C21: when removeCommand, called with names or with --all, has been through its
\* loop without a failure, the directories deleted are exactly those one of the names
\* equals, letter case aside (all of them with --all), and the number of skills it
\* reports as removed is the number of directories deleted.
C21_DeletesExactlyNamed ==
    (/\ rPc = "done" /\ rMsg = "done"
     /\ rAll \/ rNames # <<>>
     /\ \A i \in 1..Len(rResults) : rResults[i].success)
        => /\ C21_Deleted = C21_Named
           /\ Len(rResults) = Cardinality(C21_Deleted)

\* The skills installed by add whose directory removeCommand went on to remove without
\* a failure.
C22_Removed ==
    {n \in rAdded : \E i \in 1..Len(rResults) :
        rResults[i].skill = sanitizeName(n) /\ rResults[i].success}

\* C22: once removeCommand has removed a skill that add installed and recorded in the
\* lock store, the skill has neither its directory nor a lock entry.
C22_InstallThenRemove ==
    rPc = "done" =>
        \A n \in C22_Removed :
            /\ sanitizeName(n) \notin rDirs
            /\ n \notin DOMAIN readSkillLock(lockFile).skills

(***************************************************************************)
(* Claims about the add flows, continued (checked under SpecAdd).          *)
(***************************************************************************)
\* The run has ended after reporting installed skills; the names whose lock update was
\* written by the run.
C23_Reported == aPc = "done" /\ aReported # <<>>
C23_Written == {aLockLog[j][1] : j \in {k \in 1..Len(aLockLog) : aLockLog[k][2]}}

C25_AllIsStarAndYes ==
    (aOptions.all /\ aPc # "idle") =>
        /\ Contains(aOptions.skill, Star)
        /\ aOptions.yes
        /\ aPc \notin {"prompt", "confirm"}
        /\ aAnswer = <<>>
        /\ aPc \in {"install", "lock", "report"} => aSelected = aSkills
        /\ aCalls # <<>> => aSelected = aSkills

\* A run with --all and an @skill suffix over two discovered skills is installing both.
C25_Witness ==
    /\ aOptions.all
    /\ aFlow = "runAdd"
    /\ Truthy(aParsed.skillFilter)
    /\ aPc = "install"
    /\ Len(aSkills) = 2
    /\ aSelected = aSkills
    /\ Len(aCalls) = 1

\* C26: an add run reaches its installation step without waiting on a confirmation
\* prompt, whether or not -y/--yes was passed.
C26_NoConfirmationPrompt == aPc # "confirm"

\* C29: an add run with --list calls no installer, leaves the target directory and
\* the lock store as they were, and never reaches a prompt, the install loop or the
\* lock loop, whatever the source and the filter; once it has skills to list it ends
\* with status 0.
C29_ListOnlyIsReadOnly ==
    (aOptions.list /\ aPc # "idle") =>
        /\ aCalls = <<>>
        /\ aDirs \in DirsAtStart
        /\ aLockLog = <<>>
        /\ readSkillLock(lockFile).skills = aLock0
        /\ aSelected = <<>>
        /\ aPc \in {"discover", "fetch", "done"}
        /\ (aPc = "done" /\ aSkills # <<>>) => aExit = 0

\* A run with --list and a filter that names none of the two skills discovered has
\* ended with status 0.
C29_Witness ==
    /\ aOptions.list
    /\ aFlow = "runAdd"
    /\ aPc = "done"
    /\ Len(aSkills) = 2
    /\ aOptions.skill # <<>> /\ filterSkills(aSkills, aOptions.skill) = <<>>
    /\ aExit = 0
    /\ aCalls = <<>>

\* The flows that check for an installed skill before they install.
C30_CheckingFlows == {"runAdd", "remote", "legacy"}

\* The directory the i-th selected skill is installed into.
C30_DirOf(i) ==
    sanitizeName(IF aFlow = "runAdd" THEN aSelected[i].name ELSE aSelected[i].installName)

C30_Inv ==
    (aFlow \in C30_CheckingFlows /\ aSelected # <<>>) =>
        /\ Len(aOverwrites) = Len(aSelected)
        /\ aCalls = <<>> =>
              \A i \in 1..Len(aSelected) :
                  aOverwrites[i] <=> aDirs[C30_DirOf(i)].state # "absent"
        /\ aPc \in {"lock", "report"} => aCalls = aSelected

\* Past the prompts the installs go on to the last selected skill, and what the
\* summary said is not changed by them.
C30_Step ==
    /\ aSelected # <<>> => aOverwrites' = aOverwrites
    /\ (aPc = "install" /\ aFlow \in C30_CheckingFlows /\ aCalls # aSelected) =>
          aCalls' = Append(aCalls, aSelected[Len(aCalls) + 1])

\* C30: the summary of an add run says 'overwrites existing skill' exactly for the
\* selected skills whose target directory existed when it was checked, and once the
\* run is past its prompts the installer is called for every selected skill, in
\* order, whether the check found its directory or not.
C30_OverwriteNeverPrevents == [](C30_Inv) /\ [][C30_Step]_vars

\* Two skills were selected, the directory of the first existed and that of the second
\* did not; the summary said so, and both have been installed.
C30_Witness ==
    /\ aFlow = "runAdd"
    /\ aOverwrites = <<TRUE, FALSE>>
    /\ aCalls = aSelected
    /\ Len(aResults) = 2 /\ aResults[1].success /\ aResults[2].success

(***************************************************************************)
(* add.ts: parseAddOptions, and runAdd from the options to the discovery.  *)
(* An argument is a sequence of tokens, a hyphen being a token of its own, *)
(* so that startsWith('-') looks at the first token; the empty argument is *)
(* the empty sequence.                                                     *)
(***************************************************************************)
Dash == "-"
ArgY == <<Dash, "y">>
ArgYes == <<Dash, Dash, "yes">>
ArgL == <<Dash, "l">>
ArgList == <<Dash, Dash, "list">>
ArgAll == <<Dash, Dash, "all">>
ArgD == <<Dash, "d">>
ArgTargetDir == <<Dash, Dash, "target", Dash, "dir">>
ArgS == <<Dash, "s">>
ArgSkill == <<Dash, Dash, "skill">>
ArgFullDepth == <<Dash, Dash, "full", Dash, "depth">>
ArgUnknown == <<Dash, Dash, "global">>

\* arg.startsWith('-')
StartsWithDash(arg) == Len(arg) > 0 /\ arg[1] = Dash

\* Lines 896-900: how many arguments from position i on the while loop collects:
\* it stops at the end, at an empty argument and at one that begins with a hyphen.
RECURSIVE Collected(_, _)
Collected(args, i) ==
    IF i <= Len(args) /\ args[i] # <<>> /\ ~StartsWithDash(args[i])
    THEN 1 + Collected(args, i + 1) ELSE 0

\* Lines 881-908: the loop from position i on, acc being source and options so far.
RECURSIVE ParseFrom(_, _, _)
ParseFrom(args, i, acc) ==
    IF i > Len(args) THEN acc
    ELSE LET arg == args[i]
         IN  IF arg \in {ArgY, ArgYes}
             THEN ParseFrom(args, i + 1, [acc EXCEPT !.options.yes = TRUE])
             ELSE IF arg \in {ArgL, ArgList}
             THEN ParseFrom(args, i + 1, [acc EXCEPT !.options.list = TRUE])
             ELSE IF arg = ArgAll
             THEN ParseFrom(args, i + 1, [acc EXCEPT !.options.all = TRUE])
             ELSE IF arg \in {ArgD, ArgTargetDir}
             THEN ParseFrom(args, i + 2,
                            [acc EXCEPT !.options.targetDir =
                                IF i + 1 <= Len(args) THEN args[i + 1] ELSE Undefined])
             ELSE IF arg \in {ArgS, ArgSkill}
             THEN LET k == Collected(args, i + 1)
                  IN  ParseFrom(args, i + 1 + k,
                                [acc EXCEPT !.options.skill = @ \o SubSeq(args, i + 1, i + k)])
             ELSE IF arg = ArgFullDepth
             THEN ParseFrom(args, i + 1, [acc EXCEPT !.options.fullDepth = TRUE])
             ELSE IF arg # <<>> /\ ~StartsWithDash(arg)
             THEN ParseFrom(args, i + 1, [acc EXCEPT !.source = Append(@, arg)])
             ELSE ParseFrom(args, i + 1, acc)

\* parseAddOptions.  options.skill is the empty sequence both when -s was not given
\* and when it was given without a name: runAdd tells the two apart nowhere.
parseAddOptions(args) == ParseFrom(args, 1, [source |-> <<>>, options |-> NoOptions])

\* A test that does not count the wildcard as a name.
includeInternal_NamesOnly(options) ==
    Len(options.skill) > 0 /\ ~Contains(options.skill, Star)

\* Line 611 of runAdd.
includeInternal(options) == Len(options.skill) > 0

\* skills.ts, shouldInstallInternalSkills, as its tests fix it: the variable is 1 or true.
shouldInstallInternalSkills(env) == env \in {"1", "true"}

\* skills.ts, discoverSkills, as far as internal skills go: a skill whose manifest has
\* metadata.internal: true is left out unless the caller or the environment asks for
\* the internal skills.
discoverSkills(found, include, env) ==
    SelectSeq(found, LAMBDA s :
        s.internal # "true" \/ include \/ shouldInstallInternalSkills(env))

\* Inputs.  A skill found has metadata.internal true, false, or not at all.
MaxArgs == 4
ArgPool == {ArgY, ArgL, ArgAll, ArgD, ArgS, ArgFullDepth, ArgUnknown, NameA, NameB, <<>>}
ArgLists == UNION { [1..k -> ArgPool] : k \in 0..MaxArgs }

FrontArgLists == UNION { [1..k -> {ArgS, ArgAll, ArgY, NameA, Star}] : k \in 0..2 }
Found(name, internal) == [name |-> name, internal |-> internal]
FoundLists ==
    { <<Found(NameA, "true")>>, <<Found(NameA, "false")>>, <<Found(NameA, "none")>>,
      <<Found(NameA, "none"), Found(NameB, "true")>>,
      <<Found(NameA, "true"), Found(NameB, "false")>> }
EnvValues == {"unset", "1", "true", "0"}

\* cli.ts, case 'add': the arguments are parsed.
ParseArgs(args) ==
    /\ pPc = "idle"
    /\ pArgs' = args
    /\ pResult' = parseAddOptions(args)
    /\ pPc' = "parsed"
    /\ UNCHANGED <<pSuffix, pFound, pEnv, pOptions, pSkills>>
    /\ UNCHANGED <<lockVars, otherThanOptions>>

\* cli.ts, case 'add', and runAdd for a repository or a local path, lines 553-617:
\* --all is applied, the @skill suffix merged, and the skills are discovered.
DiscoverFor(args, suffix, found, env) ==
    LET result == parseAddOptions(args)
        options == MergeSkillFilter(ApplyAll(result.options, result.options.all), suffix)
    IN  /\ pPc = "idle"
        /\ pArgs' = args
        /\ pResult' = result
        /\ pSuffix' = suffix
        /\ pFound' = found
        /\ pEnv' = env
        /\ pOptions' = options
        /\ pSkills' = discoverSkills(found, includeInternal(options), env)
        /\ pPc' = "discovered"
        /\ UNCHANGED <<lockVars, otherThanOptions>>

InitOptions ==
    OptionsIdle /\ LockIdle /\ FetchIdle /\ CheckIdle /\ AddIdle /\ InstallIdle
    /\ RemoveIdle /\ RaceIdle /\ SearchIdle

NextOptions ==
    \/ /\ pPc = "idle"
       /\ \E args \in ArgLists : ParseArgs(args)
    \/ /\ pPc = "idle"
       /\ \E args \in FrontArgLists, suffix \in {Undefined, NameB}, found \in FoundLists,
             env \in EnvValues : DiscoverFor(args, suffix, found, env)

SpecOptions == InitOptions /\ [][NextOptions]_vars

(***************************************************************************)
(* Claims about the options of an add run (checked under SpecOptions).     *)
(***************************************************************************)
\* A skill name or the wildcard was supplied: by -s, by --all, or by an @skill suffix.
C24_NameSupplied ==
    \/ pResult.options.skill # <<>>
    \/ pResult.options.all
    \/ Truthy(pSuffix)

\* C24: runAdd asks discovery for the internal skills exactly when a skill name or the
\* wildcard was supplied, the @skill suffix counted; a skill with metadata.internal:
\* true is among the discovered skills exactly when the internal skills are asked for
\* (by runAdd, or by the environment), and every other skill found is always among them.
C24_InternalSkills ==
    pPc = "discovered" =>
        /\ includeInternal(pOptions) <=> C24_NameSupplied
        /\ \A i \in 1..Len(pFound) :
              Contains(pSkills, pFound[i]) <=>
                  \/ pFound[i].internal # "true"
                  \/ C24_NameSupplied
                  \/ shouldInstallInternalSkills(pEnv)

\* Only the @skill suffix was given, and the internal skill found is discovered, next
\* to one that says internal: false.
C24_Witness ==
    /\ pPc = "discovered"
    /\ pArgs = <<>>
    /\ Truthy(pSuffix)
    /\ pEnv = "unset"
    /\ pFound = <<Found(NameA, "true"), Found(NameB, "false")>>
    /\ pSkills = pFound

\* The arguments from position i up to the next one that begins with a hyphen.
RECURSIVE C28_UpToDash(_, _)
C28_UpToDash(args, i) ==
    IF i <= Len(args) /\ ~StartsWithDash(args[i]) THEN 1 + C28_UpToDash(args, i + 1) ELSE 0

\* What each argument from position i on is taken for, read from left to right: a
\* flag, the target directory after -d, a skill name after -s, or a source.
RECURSIVE C28_RolesFrom(_, _)
C28_RolesFrom(args, i) ==
    IF i > Len(args) THEN <<>>
    ELSE IF args[i] \in {ArgD, ArgTargetDir}
    THEN <<"flag">> \o (IF i + 1 <= Len(args) THEN <<"dir">> ELSE <<>>)
                   \o C28_RolesFrom(args, i + 2)
    ELSE IF args[i] \in {ArgS, ArgSkill}
    THEN <<"flag">> \o [j \in 1..C28_UpToDash(args, i + 1) |-> "skill"]
                   \o C28_RolesFrom(args, i + 1 + C28_UpToDash(args, i + 1))
    ELSE IF StartsWithDash(args[i]) THEN <<"flag">> \o C28_RolesFrom(args, i + 1)
    ELSE <<"source">> \o C28_RolesFrom(args, i + 1)

\* The arguments taken for one thing, in order.
C28_Taken(role) ==
    LET roles == C28_RolesFrom(pArgs, 1)
        at == SelectSeq([i \in 1..Len(pArgs) |-> i], LAMBDA i : roles[i] = role)
    IN  [j \in 1..Len(at) |-> pArgs[at[j]]]

C28_FlagGiven(flags) ==
    \E i \in 1..Len(pArgs) : C28_RolesFrom(pArgs, 1)[i] = "flag" /\ pArgs[i] \in flags

\* C28: parseAddOptions takes every argument for one thing: the arguments after
\* -s/--skill up to the next one that begins with a hyphen are the skill names, all
\* -s occurrences together; the argument after -d/--target-dir is the target directory
\* (the last one, if -d is given again); every other argument that does not begin
\* with a hyphen is a source, in order; and -y, -l, --all, --full-depth set their
\* option and nothing else.
C28_ClassifiesEachOnce ==
    pPc = "parsed" =>
        /\ pResult.source = C28_Taken("source")
        /\ pResult.options.skill = C28_Taken("skill")
        /\ pResult.options.targetDir =
              IF C28_Taken("dir") = <<>> \/ pArgs[Len(pArgs)] \in {ArgD, ArgTargetDir}
              THEN pResult.options.targetDir
              ELSE C28_Taken("dir")[Len(C28_Taken("dir"))]
        /\ pResult.options.yes <=> C28_FlagGiven({ArgY, ArgYes})
        /\ pResult.options.list <=> C28_FlagGiven({ArgL, ArgList})
        /\ pResult.options.all <=> C28_FlagGiven({ArgAll})
        /\ pResult.options.fullDepth <=> C28_FlagGiven({ArgFullDepth})

(***************************************************************************)
(* skill-lock.ts: two processes call addSkillToLock or removeSkillFromLock *)
(* at once.  Each call awaits readFile, changes the lock it read, and      *)
(* awaits writeFile, which opens the file (emptying it) and then writes    *)
(* the new content; the other process may run between any two of these.    *)
(***************************************************************************)
RaceCalls == [op : {"add", "remove"}, name : {NameA, NameB}]

\* The lock a call hands to writeSkillLock, from the file content it read.
LockToWrite(call, read) ==
    IF call.op = "add" THEN addSkillToLock(read, call.name, GivenGithub, clock)
    ELSE removeSkillFromLock(read, call.name).lock

\* readSkillLock: the file is read; removeSkillFromLock returns false here if the
\* name is not in the lock it read.
RaceRead(p) ==
    /\ qPc[p] = "idle"
    /\ qRead' = [qRead EXCEPT ![p] = lockFile]
    /\ qPc' = [qPc EXCEPT ![p] =
                 IF qCall[p].op = "remove" /\ ~removeSkillFromLock(lockFile, qCall[p].name).found
                 THEN "done" ELSE "read"]
    /\ qEvents' = Append(qEvents, <<p, "read">>)
    /\ UNCHANGED <<qCall, qFile0>>
    /\ UNCHANGED <<lockVars, otherThanRace>>

\* writeSkillLock, writeFile opening the file: it is empty until the content is written.
RaceOpen(p) ==
    /\ qPc[p] = "read"
    /\ lockFile' = GarbageFile
    /\ qPc' = [qPc EXCEPT ![p] = "writing"]
    /\ qEvents' = Append(qEvents, <<p, "open">>)
    /\ UNCHANGED <<qCall, qRead, qFile0>>
    /\ UNCHANGED <<lockHistory, otherThanRace>>

\* writeSkillLock, the content written: the call returns.
RaceWrite(p) ==
    /\ qPc[p] = "writing"
    /\ lockFile' = writeSkillLock(LockToWrite(qCall[p], qRead[p]))
    /\ qPc' = [qPc EXCEPT ![p] = "done"]
    /\ qEvents' = Append(qEvents, <<p, "write">>)
    /\ UNCHANGED <<qCall, qRead, qFile0>>
    /\ UNCHANGED <<lockHistory, otherThanRace>>

RaceStart ==
    /\ qPc = [p \in Procs |-> "idle"]
    /\ qCall \in [Procs -> RaceCalls]
    /\ qRead = [p \in Procs |-> MissingFile]
    /\ qFile0 = lockFile
    /\ qEvents = <<>>

InitRace ==
    LockForAdd /\ RaceStart /\ FetchIdle /\ CheckIdle /\ AddIdle /\ InstallIdle
    /\ RemoveIdle /\ OptionsIdle /\ SearchIdle

NextRace ==
    \/ \E p \in Procs : RaceRead(p)
    \/ \E p \in Procs : RaceOpen(p)
    \/ \E p \in Procs : RaceWrite(p)

SpecRace == InitRace /\ [][NextRace]_vars

(***************************************************************************)
(* Claims about concurrent calls of the lock store (checked under          *)
(* SpecRace).                                                              *)
(***************************************************************************)
\* Both calls have returned; the process that wrote last; the calls ran one after the
\* other, process p first.
C27_BothReturned == \A p \in Procs : qPc[p] = "done"
C27_Writers == {qEvents[i][1] : i \in {j \in 1..Len(qEvents) : qEvents[j][2] = "write"}}
C27_LastWriter ==
    qEvents[CHOOSE i \in 1..Len(qEvents) :
                /\ qEvents[i][2] = "write"
                /\ \A j \in (i + 1)..Len(qEvents) : qEvents[j][2] # "write"][1]
C27_OneAfterTheOther(p) ==
    \A i, j \in 1..Len(qEvents) : (qEvents[i][1] = p /\ qEvents[j][1] # p) => i < j

\* The names with an entry once a call has changed a lock with the names given.
C27_NamesAfter(call, names) ==
    IF call.op = "add" THEN names \cup {call.name} ELSE names \ {call.name}

\* C27: two lock-store calls at once on one file are two read-modify-write cycles
\* that can interleave.  When both have returned, the file is what the call that
\* wrote last made of the content it had read, whatever the other call wrote in
\* between (last writer wins); only when the calls ran one after the other is the
\* file sure to have the changes of both.
C27_LastWriterWins ==
    C27_BothReturned =>
        /\ C27_Writers # {} =>
              lockFile = writeSkillLock(LockToWrite(qCall[C27_LastWriter], qRead[C27_LastWriter]))
        /\ C27_Writers = {} => lockFile = qFile0
        /\ \A p \in Procs : C27_OneAfterTheOther(p) =>
              \A q \in Procs \ {p} :
                  DOMAIN readSkillLock(lockFile).skills =
                      C27_NamesAfter(qCall[q],
                          C27_NamesAfter(qCall[p], DOMAIN readSkillLock(qFile0).skills))

\* Both calls, each an addSkillToLock of its own skill, read the file before either
\* wrote it; both have returned, and the file lacks the entry of one of them.
C27_Witness ==
    /\ C27_BothReturned
    /\ qEvents[1][2] = "read" /\ qEvents[2][2] = "read"
    /\ \A p \in Procs : qCall[p].op = "add"
    /\ qCall["p1"].name # qCall["p2"].name
    /\ \E p \in Procs : qCall[p].name \notin DOMAIN readSkillLock(lockFile).skills

\* ---------------------------------------------------------------------------
\* One invocation: the lock calls of one add or remove run, in program order.
\* "p1" is the first iteration of the loop and "p2" the second (add.ts 797-823,
\* remove.ts 275-299); each call is the same read, open and write as above.
\* ---------------------------------------------------------------------------

LockEvents == {"read", "open", "write"}

Logged(p, what) == \E i \in 1..Len(qEvents) : qEvents[i] = <<p, what>>

Awaited_NotAwaited(p) == TRUE

\* `await addSkillToLock(...)` (add.ts 811) and `await removeSkillFromLock(...)`
\* (remove.ts 284) inside a for loop: the second iteration starts when the call of
\* the first has returned.
Awaited(p) == p = "p1" \/ qPc["p1"] = "done"

\* add.ts 697-706: the overwrite checks are all issued by Promise.all before any
\* of them is awaited; each resolves on its own, in any order.
SeqCheck(p) ==
    /\ qCall[p].op = "add"
    /\ ~Logged(p, "check")
    /\ qEvents' = Append(qEvents, <<p, "check">>)
    /\ UNCHANGED <<qPc, qCall, qRead, qFile0>>
    /\ UNCHANGED <<lockVars, otherThanRace>>

\* remove.ts 278-280: the directory is removed and getSkillFromLock reads the lock
\* for the report, before removeSkillFromLock is called.
SeqLookup(p) ==
    /\ qCall[p].op = "remove"
    /\ Awaited(p)
    /\ ~Logged(p, "lookup")
    /\ qEvents' = Append(qEvents, <<p, "lookup">>)
    /\ UNCHANGED <<qPc, qCall, qRead, qFile0>>
    /\ UNCHANGED <<lockVars, otherThanRace>>

\* The loop reaches the lock call of iteration p: after `await Promise.all` of the
\* overwrite checks (add), after the lookup of the same iteration (remove).
LoopReaches(p) ==
    /\ Awaited(p)
    /\ IF qCall[p].op = "add" THEN \A q \in Procs : Logged(q, "check")
       ELSE Logged(p, "lookup")

SeqRead(p) == LoopReaches(p) /\ RaceRead(p)

SeqStart ==
    /\ RaceStart
    /\ qCall["p1"].op = qCall["p2"].op

\* The lock file an add or remove run may find: any of the files of the lock store.
LockForSeq ==
    /\ lockFile \in InitialLockFiles
    /\ clock = 1
    /\ lastOp = NoOp
    /\ readRes = [async |-> NoSkills, sync |-> NoSkills]
    /\ firstAdd = [n \in LockNames |-> NoTime]
    /\ lastAdd = [n \in LockNames |-> NoTime]

InitSeq ==
    LockForSeq /\ SeqStart /\ FetchIdle /\ CheckIdle /\ AddIdle /\ InstallIdle
    /\ RemoveIdle /\ OptionsIdle /\ SearchIdle

NextSeq ==
    \/ \E p \in Procs : SeqCheck(p)
    \/ \E p \in Procs : SeqLookup(p)
    \/ \E p \in Procs : SeqRead(p)
    \/ \E p \in Procs : RaceOpen(p)
    \/ \E p \in Procs : RaceWrite(p)

SpecSeq == InitSeq /\ [][NextSeq]_vars

\* C31: within one add or remove run the read-modify-write cycles on the lock
\* store never overlap: every read, open and write of the first call comes before
\* every read, open and write of the second, the second call reads only when the
\* first has returned, and it reads the file the first call left (an add's own
\* write included), whatever the order in which the overwrite checks resolved.
C31_CyclesDoNotOverlap ==
    /\ \A i, j \in 1..Len(qEvents) :
          (/\ qEvents[i][1] = "p1" /\ qEvents[i][2] \in LockEvents
           /\ qEvents[j][1] = "p2" /\ qEvents[j][2] \in LockEvents) => i < j
    /\ Logged("p2", "read") =>
          /\ qPc["p1"] = "done"
          /\ qCall["p1"].op = "add" => Logged("p1", "write")
          /\ qRead["p2"] =
                IF Logged("p1", "write")
                THEN writeSkillLock(LockToWrite(qCall["p1"], qRead["p1"]))
                ELSE qFile0

\* Both calls of an add run have written, and the overwrite check of the second
\* skill resolved before the one of the first.
C31_Witness ==
    /\ \A p \in Procs : qPc[p] = "done" /\ qCall[p].op = "add"
    /\ Logged("p1", "write") /\ Logged("p2", "write")
    /\ qEvents[1] = <<"p2", "check">> /\ qEvents[2] = <<"p1", "check">>
    /\ qCall["p1"].name # qCall["p2"].name

\* The files readSkillLock answers with an empty lock: unreadable or not JSON, no
\* numeric version, no skills, or a version below 3.
C32_TreatedAsEmpty(file) ==
    file.kind # "json" \/ ~file.vnum \/ ~file.hasSkills \/ file.version < 3

C32_OnlyNew(call) ==
    JsonFile(TRUE, 3, TRUE, [n \in {call.name} |-> Stored(GivenGithub, clock)])

\* C32: a call that read a file treated as empty: addSkillToLock leaves a version-3
\* file holding the added entry alone (whatever the old file stored is gone), and
\* removeSkillFromLock returns false at its read, never opens the file, and the old
\* file stays as it was.
C32_OldFileIsReplaced ==
    \A p \in Procs :
        (Logged(p, "read") /\ C32_TreatedAsEmpty(qRead[p])) =>
            /\ (/\ qCall[p].op = "add" /\ qPc[p] = "done"
                /\ (p = "p1" => ~Logged("p2", "open")))
               => lockFile = C32_OnlyNew(qCall[p])
            /\ qCall[p].op = "remove" =>
                  /\ qPc[p] = "done"
                  /\ ~Logged(p, "open")
                  /\ lockFile = qRead[p]

\* Skill "b" added over a schema-2 file that stored skill "a": "a" is gone.
C32_Witness ==
    /\ qFile0 = JsonFile(TRUE, 2, TRUE, OldSkills)
    /\ qCall["p1"] = [op |-> "add", name |-> NameB]
    /\ qPc["p1"] = "done" /\ qPc["p2"] = "idle"
    /\ DOMAIN lockFile.skills = {NameB}
    /\ lockFile.version = 3

(***************************************************************************)
(* Claims about check and update, continued (checked under SpecCheck).     *)
(***************************************************************************)
\* The entries written by handleRemoteSkill (any provider), handleWellKnownSkills
\* and handleDirectUrlSkillLegacy.
C33_DirectEntries ==
    { RemoteSkillEntry(pid, <<"o/r">>, "https://host/raw/SKILL.md", a) :
         pid \in {"github", "huggingface"}, a \in AddAnswers }
    \cup { WellKnownEntry(<<"wellknown/site">>, "https://site/x") }
    \cup { LegacyEntry(NameC, "https://site/skill.md") }

C33_Direct(entry) ==
    [source |-> entry.source, sourceType |-> entry.sourceType, sourceUrl |-> entry.sourceUrl,
     skillPath |-> entry.skillPath, skillFolderHash |-> entry.skillFolderHash]
        \in C33_DirectEntries

C33_DirectNames == {n \in DOMAIN cLock : C33_Direct(cLock[n])}

C33_Scanned == SeqToSet(Keys(cLock)) \ SeqToSet(cNames)

\* C33: an entry recorded by a direct-URL flow (GitHub provider included), by the
\* well-known flow or by the legacy flow has no skillPath or an empty hash; check
\* counts each of them as skipped and never looks it up or reports it, and update
\* never looks it up nor reinstalls it.
C33_DirectEntriesAreSkipped ==
    /\ \A e \in C33_DirectEntries : e.skillPath = Undefined \/ e.skillFolderHash = <<>>
    /\ \A n \in C33_DirectNames :
          /\ n \notin SeqToSet(cChecked) \cup SeqToSet(cQueue) \cup SeqToSet(cUpdates)
          /\ n \notin SeqToSet(cErrors) \cup SeqToSet(cTodo) \cup SeqToSet(cSpawned)
          /\ \A i \in 1..Len(cLooked) : cLooked[i][1] # n
    /\ cCmd = "check" =>
          /\ cSkipped + Len(cChecked) = Cardinality(C33_Scanned)
          /\ cSkipped >= Cardinality(C33_DirectNames \cap C33_Scanned)

\* An update run reinstalled skill "a" and is done, with a GitHub direct-URL entry
\* that has a hash stored for skill "b".
C33_Witness ==
    /\ cCmd = "update" /\ cPc = "done"
    /\ cSpawned = <<NameA>>
    /\ NameB \in C33_DirectNames
    /\ cLock[NameB].sourceType = "github" /\ cLock[NameB].skillFolderHash = H1

\* The update run is over and every reinstall was reported as "Updated".
C34_AllReportedUpdated ==
    cCmd = "update" /\ cPc = "done" /\ cMsg = "updated" /\ cFail = 0

\* C34: once runUpdate has reported a skill as updated, the lock entry under the
\* same name is no longer the outdated one that runUpdate read: the reinstall has
\* rewritten it, so that a following check does not compare the upstream
\* fingerprint with the old hash again.
C34_UpdatedIsRewritten ==
    C34_AllReportedUpdated =>
        \A i \in 1..Len(cSpawned) :
            LET n == cSpawned[i]
                now == readSkillLockSync(lockFile).skills
            IN  /\ n \in DOMAIN now
                /\ now[n].updatedAt # cLock[n].updatedAt

\* The entries both commands ask the remote about, and of them those whose answer
\* is a fingerprint other than the stored one.
C35_Asked ==
    {n \in DOMAIN cLock :
        /\ cLock[n].sourceType = "github"
        /\ cLock[n].skillFolderHash \notin {Undefined, <<>>}
        /\ cLock[n].skillPath \notin {Undefined, <<>>}}

C35_Outdated ==
    {n \in C35_Asked :
        \E i \in 1..Len(cLooked) :
            /\ cLooked[i][1] = n
            /\ cLooked[i][2].kind = "sha"
            /\ cLooked[i][2].sha # cLock[n].skillFolderHash}

\* C35: check and update are the same function of the lock and of the remote's
\* answers: both ask about the same entries, and the skills check reports as
\* "update available" and the skills update tries to reinstall are, each, exactly
\* the asked entries whose answer is a fingerprint different from the stored hash.
C35_SameOutdatedSet ==
    cPc = "done" =>
        /\ LookedNames = C35_Asked
        /\ cCmd = "check" => SeqToSet(cUpdates) = C35_Outdated
        /\ cCmd = "update" => SeqToSet(cSpawned) = C35_Outdated

\* An update run that reinstalled one skill and got a null answer for another,
\* which it left alone.
C35_Witness ==
    /\ cCmd = "update" /\ cPc = "done"
    /\ Len(cSpawned) = 1
    /\ \E i \in 1..Len(cLooked) :
          cLooked[i][2].kind = "null" /\ cLooked[i][1] \notin SeqToSet(cSpawned)

(***************************************************************************)
(* find.ts: runSearchPrompt, the interactive search prompt.                *)
(*                                                                         *)
(* A query is the sequence of the characters typed.  The i-th skill of a   *)
(* response to query q is <<q, i>>.  Timers and searches run on the event  *)
(* loop: a timer set by triggerSearch fires later, its callback sends the  *)
(* search and is resumed when the response arrives.                        *)
(***************************************************************************)
MaxQuery == 3
MaxTimers == 3
MinQuery == 2
MaxVisible == 8
ApiLimit == 10

Chars == {"x", "y"}

\* searchSkillsAPI answers with at most `limit' skills; [] when the request failed.
ResultCounts == {0, 2, ApiLimit}

ResultsFor(q, n) == [i \in 1..n |-> <<q, i>>]

\* render, lines 96-116: the rows of skills on the screen (results.slice(0, 8)).
Rendered ==
    IF Len(sQuery) < MinQuery THEN <<>>
    ELSE SubSeq(sResults, 1, IF Len(sResults) < MaxVisible THEN Len(sResults) ELSE MaxVisible)

\* render: the row drawn with the arrow, if any.
Highlighted == {Rendered[i] : i \in {j \in 1..Len(Rendered) : j - 1 = sSelectedIndex}}

\* clearTimeout(debounceTimer): a timer still pending is cancelled; one that has fired
\* already is not affected.
Cleared == {t \in sTimers : t.id # sDebounceTimer}

\* triggerSearch(q), lines 129-149, up to setTimeout.
triggerSearch(q) ==
    IF Len(q) < MinQuery
    THEN /\ sTimers' = Cleared
         /\ sDebounceTimer' = NoTimer
         /\ sLoading' = FALSE
         /\ sResults' = <<>>
         /\ sSelectedIndex' = 0
         /\ sNextTimer' = sNextTimer
    ELSE /\ sNextTimer <= MaxTimers
         /\ sTimers' = Cleared \cup {[id |-> sNextTimer, q |-> q]}
         /\ sDebounceTimer' = sNextTimer
         /\ sLoading' = TRUE
         /\ sNextTimer' = sNextTimer + 1
         /\ UNCHANGED <<sResults, sSelectedIndex>>

\* runSearchPrompt is called (runFind, line 281): no initial query.
SearchOpen ==
    /\ sPc = "idle"
    /\ sPc' = "open"
    /\ UNCHANGED <<sQuery, sResults, sSelectedIndex, sLoading, sDebounceTimer, sTimers,
                   sRequests, sNextTimer, sResolved>>
    /\ UNCHANGED <<lockVars, otherThanSearch>>

\* handleKeypress, lines 213-219: a printable character.
KeyChar(char) ==
    /\ sPc = "open"
    /\ Len(sQuery) < MaxQuery
    /\ sQuery' = Append(sQuery, char)
    /\ triggerSearch(sQuery')
    /\ UNCHANGED <<sPc, sRequests, sResolved>>
    /\ UNCHANGED <<lockVars, otherThanSearch>>

\* handleKeypress, lines 205-211: backspace.
KeyBackspace ==
    /\ sPc = "open"
    /\ IF Len(sQuery) > 0
       THEN /\ sQuery' = SubSeq(sQuery, 1, Len(sQuery) - 1)
            /\ triggerSearch(sQuery')
       ELSE UNCHANGED <<sQuery, sResults, sSelectedIndex, sLoading, sDebounceTimer, sTimers,
                        sNextTimer>>
    /\ UNCHANGED <<sPc, sRequests, sResolved>>
    /\ UNCHANGED <<lockVars, otherThanSearch>>

\* handleKeypress, lines 193-197: up.
KeyUp ==
    /\ sPc = "open"
    /\ sSelectedIndex' = IF sSelectedIndex - 1 > 0 THEN sSelectedIndex - 1 ELSE 0
    /\ UNCHANGED <<sPc, sQuery, sResults, sLoading, sDebounceTimer, sTimers, sRequests,
                   sNextTimer, sResolved>>
    /\ UNCHANGED <<lockVars, otherThanSearch>>

\* handleKeypress, lines 199-203: down, up to the last element of results.
KeyDown ==
    /\ sPc = "open"
    /\ LET last == IF Len(sResults) - 1 > 0 THEN Len(sResults) - 1 ELSE 0
       IN  sSelectedIndex' = IF last < sSelectedIndex + 1 THEN last ELSE sSelectedIndex + 1
    /\ UNCHANGED <<sPc, sQuery, sResults, sLoading, sDebounceTimer, sTimers, sRequests,
                   sNextTimer, sResolved>>
    /\ UNCHANGED <<lockVars, otherThanSearch>>

\* handleKeypress, lines 187-191: return resolves with results[selectedIndex] || null.
KeyReturn ==
    /\ sPc = "open"
    /\ sPc' = "closed"
    /\ sResolved' = IF sSelectedIndex < Len(sResults) THEN sResults[sSelectedIndex + 1]
                    ELSE NoSkill
    /\ UNCHANGED <<sQuery, sResults, sSelectedIndex, sLoading, sDebounceTimer, sTimers,
                   sRequests, sNextTimer>>
    /\ UNCHANGED <<lockVars, otherThanSearch>>

\* handleKeypress, lines 181-185: escape or ctrl-c resolves with null.
KeyEscape ==
    /\ sPc = "open"
    /\ sPc' = "closed"
    /\ sResolved' = NoSkill
    /\ UNCHANGED <<sQuery, sResults, sSelectedIndex, sLoading, sDebounceTimer, sTimers,
                   sRequests, sNextTimer>>
    /\ UNCHANGED <<lockVars, otherThanSearch>>

\* The callback of setTimeout starts, lines 149-151: searchSkillsAPI(q) is sent and the
\* callback waits for it.  debounceTimer still holds the handle of this timer.
TimerFires(t) ==
    /\ sPc = "open"
    /\ t \in sTimers
    /\ sTimers' = sTimers \ {t}
    /\ sRequests' = sRequests \cup {t}
    /\ UNCHANGED <<sPc, sQuery, sResults, sSelectedIndex, sLoading, sDebounceTimer,
                   sNextTimer, sResolved>>
    /\ UNCHANGED <<lockVars, otherThanSearch>>

\* The callback resumes with the response, lines 151-159: searchSkillsAPI does not
\* throw, so the catch is never taken.
SearchResponse(r, n) ==
    /\ sPc = "open"
    /\ r \in sRequests
    /\ sRequests' = sRequests \ {r}
    /\ sResults' = ResultsFor(r.q, n)
    /\ sSelectedIndex' = 0
    /\ sLoading' = FALSE
    /\ sDebounceTimer' = NoTimer
    /\ UNCHANGED <<sPc, sQuery, sTimers, sNextTimer, sResolved>>
    /\ UNCHANGED <<lockVars, otherThanSearch>>

InitFind ==
    LockIdle /\ FetchIdle /\ CheckIdle /\ AddIdle /\ InstallIdle /\ RemoveIdle /\ OptionsIdle
    /\ RaceIdle /\ SearchIdle

NextFind ==
    \/ SearchOpen
    \/ \E char \in Chars : KeyChar(char)
    \/ KeyBackspace
    \/ KeyUp
    \/ KeyDown
    \/ KeyReturn
    \/ KeyEscape
    \/ \E t \in sTimers : TimerFires(t)
    \/ \E r \in sRequests, n \in ResultCounts : SearchResponse(r, n)

SpecFind == InitFind /\ [][NextFind]_vars

C36_Settled == sPc = "open" /\ sTimers = {} /\ sRequests = {}

\* C36: in the search prompt, whatever the order of keys, timers and responses:
\* once no timer and no search is pending the skills on the screen are those of a
\* response to the query as it stands (none when the query has fewer than two
\* characters), and there is never more than one timer pending.
C36_ShowsCurrentQuery ==
    /\ C36_Settled => \A i \in 1..Len(Rendered) : Rendered[i][1] = sQuery
    /\ C36_Settled /\ Len(sQuery) < MinQuery => Rendered = <<>>
    /\ Cardinality(sTimers) <= 1

\* C37: in the search prompt selectedIndex always points at a row on the screen,
\* 0 <= selectedIndex < max(1, min(8, number of results)), and return resolves
\* with null or with the skill that was highlighted.
C37_SelectedIsRendered ==
    /\ 0 <= sSelectedIndex
    /\ sSelectedIndex < (IF Len(sResults) = 0 THEN 1
                         ELSE IF Len(sResults) < MaxVisible THEN Len(sResults) ELSE MaxVisible)
    /\ sPc = "closed" => sResolved = NoSkill \/ sResolved \in Highlighted

(***************************************************************************)
(* Claims about the install directories of one add run (SpecAdd).          *)
(***************************************************************************)
C38_Successful == {i \in 1..Len(aResults) : aResults[i].success}

C38_DirsCreated == {C15_DirOf(aSelected[i]) : i \in C38_Successful}

C38_EntriesWritten ==
    {aLockLog[k][1] : k \in {j \in 1..Len(aLockLog) : aLockLog[j][2]}}

\* The run was for a source that is recorded in the lock store, and no lock update of
\* it threw.
C38_Locking ==
    /\ aParsed.source # Undefined
    /\ \A k \in 1..Len(aLockLog) : aLockLog[k][2]

\* C38: at the end of an add run the skills reported installed have pairwise
\* different install directories, so none of them has replaced the files of
\* another, and (for a source the lock store records, its updates not failing) the
\* run has written as many lock entries as it created skill directories.
C38_DistinctDirectories ==
    (aFlow \in SelectingFlows /\ aPc = "done" /\ aExit = 0 /\ C38_Locking) =>
        /\ \A i, j \in C38_Successful :
              i # j => C15_DirOf(aSelected[i]) # C15_DirOf(aSelected[j])
        /\ Cardinality(C38_EntriesWritten) = Cardinality(C38_DirsCreated)

(***************************************************************************)
(* Claims about removeCommand, continued (checked under SpecRemove).       *)
(***************************************************************************)
\* C39: every directory removeCommand has deleted is one that listInstalledSkills
\* reports for the same target directory: a directory without a valid SKILL.md is
\* never deleted, neither by name nor by --all.
C39_DeletesOnlyListed ==
    (rDirs0 \ rDirs) \subseteq listInstalledSkills(rDirs0, rManifests)

====
